---- MODULE Spec2Model ----
(***************************************************************************)
(* Temporal state machine of the space elevator simulator                  *)
(* (src/simulation/state.js, latest revision: src/unnamed/part_009 lines   *)
(* 125-412) with the constants of src/src/constants.js.                    *)
(*                                                                         *)
(* Units.  JavaScript numbers are doubles; the model computes with exact   *)
(* rationals on a grid on which every value the code computes is exact:    *)
(*   - time is counted in ticks of MsPerTick = 15 s (the shortest cinema   *)
(*     segment), so every *_MS constant and every timestamp is an integer; *)
(*   - an altitude is a record [w, f] standing for (w + f/FracDen) units   *)
(*     of 0.01 km (GROUND_STATION_ALTITUDE is one unit);                   *)
(*   - NaN is a distinguished number that every arithmetic operation       *)
(*     propagates and every comparison rejects, as IEEE-754 does.          *)
(***************************************************************************)
EXTENDS Integers, Sequences, FiniteSets, TLC

\* ------------------------------------------------------------------ units
MsPerTick == 15 * 1000
TicksPerHour == 3600000 \div MsPerTick
UnitsPerKm == 10 * 10

\* ------------------------------------------------- src/src/constants.js
CABLE_LENGTH == 100000 * UnitsPerKm
DEFAULT_SPEED_KMH == 300
GROUND_STATION_ALTITUDE == UnitsPerKm \div 100
WAIT_DURATION_MS == (10 * 60 * 1000) \div MsPerTick
TRAVEL_DURATION_MS == (100000 * TicksPerHour) \div DEFAULT_SPEED_KMH
CYCLE_DURATION_MS == 2 * (TRAVEL_DURATION_MS + WAIT_DURATION_MS)
\* Date.UTC(2026, 0, 1): 20454 days after 1970-01-01
CYCLE_EPOCH_MS == 20454 * (86400000 \div MsPerTick)

\* ---------------------------------------------------- IEEE-754 numbers
\* NaN: a number no computation of the model produces
NaN == -((2^30 - 1) + 2^30)

MaxInt == (2^30 - 1) + 2^30

IsNaN(x) == x = NaN

Mul(a, b) == IF IsNaN(a) \/ IsNaN(b) THEN NaN ELSE a * b

Add(a, b) == IF IsNaN(a) \/ IsNaN(b) THEN NaN ELSE a + b

Sub(a, b) == IF IsNaN(a) \/ IsNaN(b) THEN NaN ELSE a - b

\* a <= b and a >= b on doubles: false as soon as one side is NaN
Leq(a, b) == ~IsNaN(a) /\ ~IsNaN(b) /\ a <= b

Geq(a, b) == ~IsNaN(a) /\ ~IsNaN(b) /\ a >= b

\* the % operator of JavaScript: the remainder has the sign of the dividend
JsRem(a, b) == IF a >= 0 THEN a % b ELSE -((-a) % b)

\* ------------------------------------------------------------ altitudes
\* denominator of the fractional part of an altitude
FracDen == 3 * TRAVEL_DURATION_MS

\* the altitude w + n/FracDen units, normalised so that 0 <= f < FracDen
Alt(w, n) == [w |-> w + (n \div FracDen), f |-> n % FracDen]

NaNAlt == [w |-> NaN, f |-> 0]

AltIsNaN(a) == IsNaN(a.w)

Km(k) == Alt(k * UnitsPerKm, 0)

AltLeq(a, b) ==
    /\ ~AltIsNaN(a)
    /\ ~AltIsNaN(b)
    /\ (a.w < b.w \/ (a.w = b.w /\ a.f <= b.f))

AltGeq(a, b) == AltLeq(b, a)

AltLt(a, b) == AltLeq(a, b) /\ a # b

AltAdd(a, b) ==
    IF AltIsNaN(a) \/ AltIsNaN(b) THEN NaNAlt ELSE Alt(a.w + b.w, a.f + b.f)

AltSub(a, b) ==
    IF AltIsNaN(a) \/ AltIsNaN(b) THEN NaNAlt ELSE Alt(a.w - b.w, a.f - b.f)

\* the product of an altitude and an integer
AltTimes(a, k) ==
    IF AltIsNaN(a) \/ IsNaN(k) THEN NaNAlt ELSE Alt(a.w * k, a.f * k)

\* the exact quotient num/den (den > 0 divides FracDen) as an altitude
AltQuot(num, den) ==
    IF IsNaN(num) THEN NaNAlt
    ELSE Alt(num \div den, (num % den) * (FracDen \div den))

\* Math.min and Math.max return NaN when an argument is NaN
AltMin(a, b) ==
    IF AltIsNaN(a) \/ AltIsNaN(b) THEN NaNAlt ELSE IF AltLeq(a, b) THEN a ELSE b

AltMax(a, b) ==
    IF AltIsNaN(a) \/ AltIsNaN(b) THEN NaNAlt ELSE IF AltLeq(a, b) THEN b ELSE a

\* Math.abs(a - b)
AltDistance(a, b) == IF AltLeq(a, b) THEN AltSub(b, a) ELSE AltSub(a, b)

GroundAlt == Alt(GROUND_STATION_ALTITUDE, 0)

CableAlt == Alt(CABLE_LENGTH, 0)

ZeroAlt == Alt(0, 0)

\* a duration num/den that the code computes by a division: kept as the
\* quotient, since den may be 0 (speedKmh = 0)
Ratio(num, den) == [n |-> num, d |-> den]

Exact(t) == Ratio(Alt(t, 0), 1)

\* ------------------------------------------------ getUTCSyncState(utcMs)
\* progress * TRAVEL_RANGE for progress = p / TRAVEL_DURATION_MS and
\* TRAVEL_RANGE = CABLE_LENGTH - GROUND_STATION_ALTITUDE, multiplied out
\* so that no intermediate product leaves the 32-bit integers
ProgressTimesRange(p) ==
    AltSub(AltQuot(p * (CABLE_LENGTH \div TRAVEL_DURATION_MS), 1),
           AltQuot(p * GROUND_STATION_ALTITUDE, TRAVEL_DURATION_MS))

\* faulty variant: the remainder is taken once, without the "positive modulo" step
cyclePosTruncated(utcMs) == JsRem(utcMs - CYCLE_EPOCH_MS, CYCLE_DURATION_MS)

cyclePosOf(utcMs) ==
    LET elapsed == utcMs - CYCLE_EPOCH_MS
    IN  JsRem(JsRem(elapsed, CYCLE_DURATION_MS) + CYCLE_DURATION_MS, CYCLE_DURATION_MS)

phase1End == WAIT_DURATION_MS

phase2End == WAIT_DURATION_MS + TRAVEL_DURATION_MS

\* faulty variant: the wait at the top is left out of the third boundary
phase3EndNoWait == WAIT_DURATION_MS + TRAVEL_DURATION_MS

phase3End == 2 * WAIT_DURATION_MS + TRAVEL_DURATION_MS

getUTCSyncState(utcMs) ==
    LET cyclePos == cyclePosOf(utcMs)
    IN  IF cyclePos < phase1End THEN
            [ altitudeKm |-> GroundAlt,
              direction |-> 0,
              waitRemainingMs |-> phase1End - cyclePos,
              phase |-> "wait-ground",
              travelElapsedMs |-> 0,
              travelRemainingMs |-> 0 ]
        ELSE IF cyclePos < phase2End THEN
            [ altitudeKm |-> AltAdd(GroundAlt, ProgressTimesRange(cyclePos - phase1End)),
              direction |-> 1,
              waitRemainingMs |-> 0,
              phase |-> "ascend",
              travelElapsedMs |-> cyclePos - phase1End,
              travelRemainingMs |-> phase2End - cyclePos ]
        ELSE IF cyclePos < phase3End THEN
            [ altitudeKm |-> CableAlt,
              direction |-> 0,
              waitRemainingMs |-> phase3End - cyclePos,
              phase |-> "wait-top",
              travelElapsedMs |-> 0,
              travelRemainingMs |-> 0 ]
        ELSE
            [ altitudeKm |-> AltSub(CableAlt, ProgressTimesRange(cyclePos - phase3End)),
              direction |-> -1,
              waitRemainingMs |-> 0,
              phase |-> "descend",
              travelElapsedMs |-> cyclePos - phase3End,
              travelRemainingMs |-> CYCLE_DURATION_MS - cyclePos ]

\* ------------------------------------------------------ cinema presets
\* hours to ticks and km to units, reduced by their common factor 20, so
\* that products with them stay inside the 32-bit integers
HourTicks == TicksPerHour \div 20

HourUnits == UnitsPerKm \div 20

Seg(fromKm, toKm, durationMs) ==
    [from |-> fromKm * UnitsPerKm, to |-> toKm * UnitsPerKm,
     durationMs |-> durationMs \div MsPerTick]

\* CINEMA_MODES of constants.js; a preset is its segments
ExpressAscent ==
    << Seg(0, 100, 2 * 60000), Seg(100, 1000, 2 * 60000),
       Seg(1000, 30000, 2 * 60000), Seg(30000, 100000, 1 * 60000) >>

LudicrousSpeed ==
    << Seg(0, 100, 15000), Seg(100, 1000, 15000),
       Seg(1000, 10000, 15000), Seg(10000, 35780, 15000) >>

CINEMA_MODES == << ExpressAscent, LudicrousSpeed >>

\* state._cinemaPreset = null
NoPreset == << >>

Abs(x) == IF x < 0 THEN -x ELSE x

\* sum of preset.segments[j].durationMs for j = i .. length
RECURSIVE SumDurations(_, _)
SumDurations(segments, i) ==
    IF i > Len(segments) THEN 0
    ELSE segments[i].durationMs + SumDurations(segments, i + 1)

\* direction of a cinema segment
segDirection(seg) == IF seg.to > seg.from THEN 1 ELSE -1

\* the body of the for loop of computeCinemaState, from index i on
RECURSIVE cinemaLoop(_, _, _, _)
cinemaLoop(segments, elapsedMs, i, accumulated) ==
    IF i > Len(segments) THEN
        [ altitudeKm |-> Alt(segments[Len(segments)].to, 0),
          direction |-> 0,
          phase |-> "null",
          timeScale |-> 1,
          travelElapsedMs |-> accumulated,
          travelRemainingMs |-> 0,
          done |-> TRUE ]
    ELSE
        LET seg == segments[i]
        IN  IF elapsedMs < accumulated + seg.durationMs THEN
                LET direction == segDirection(seg)
                    \* |to - from| / DEFAULT_SPEED_KMH hours, in ticks
                    realTravelMs ==
                        ((Abs(seg.to - seg.from) \div UnitsPerKm) * TicksPerHour)
                IN  [ altitudeKm |->
                          AltAdd(Alt(seg.from, 0),
                                 AltQuot((seg.to - seg.from) * (elapsedMs - accumulated),
                                         seg.durationMs)),
                      direction |-> direction,
                      phase |-> IF direction = 1 THEN "ascend" ELSE "descend",
                      timeScale |-> realTravelMs \div (DEFAULT_SPEED_KMH * seg.durationMs),
                      travelElapsedMs |-> elapsedMs,
                      travelRemainingMs |->
                          (seg.durationMs - (elapsedMs - accumulated))
                              + SumDurations(segments, i + 1),
                      done |-> FALSE ]
            ELSE cinemaLoop(segments, elapsedMs, i + 1, accumulated + seg.durationMs)

\* faulty variant: the playback starts over when the last segment is complete
computeCinemaStateLooping(preset, elapsedMs) ==
    cinemaLoop(preset, elapsedMs % SumDurations(preset, 1), 1, 0)

computeCinemaState(preset, elapsedMs) == cinemaLoop(preset, elapsedMs, 1, 0)

\* ------------------------------------------------ computeAltitude(s, now)
\* whether a * b fits the 32-bit integers of the model checker
MulFits(a, b) == a = 0 \/ b = 0 \/ Abs(a) <= MaxInt \div Abs(b)

Sign(x) == IF x > 0 THEN 1 ELSE IF x < 0 THEN -1 ELSE 0

computeAltitude(s, now) ==
    LET \* (now - startTimeMs) * timeScale, in ticks
        simTicks == Mul(now - s.startTimeMs, s.timeScale)
        \* direction * speedKmh, in units per HourTicks ticks
        rate == Mul(Mul(s.direction, s.speedKmh), HourUnits)
        travelled == AltQuot(Mul(rate, simTicks), HourTicks)
        alt == AltAdd(s.startAltitudeKm, travelled)
    IN  IF IsNaN(rate) \/ IsNaN(simTicks) \/ AltIsNaN(s.startAltitudeKm) THEN NaNAlt
        ELSE IF ~MulFits(rate, simTicks) THEN
            \* the product is beyond +-MaxInt, so alt is beyond the cable on that
            \* side whatever startAltitudeKm is, and the clamp decides
            IF Sign(rate) * Sign(simTicks) > 0 THEN CableAlt ELSE ZeroAlt
        ELSE AltMax(ZeroAlt, AltMin(CableAlt, alt))

\* getEffectiveGravity(altitudeKm) / 9.80 is a function of the altitude alone;
\* the cache keeps the altitude it was computed from
gravityG(alt) == [of |-> alt]

\* ---------------------------------------------------- updateLocalState()
\* faulty variant: the realtime branch leaves speedKmh and timeScale as they were
updateRealtimeKeepScale(s, now) ==
    LET sync == getUTCSyncState(now)
    IN  [s EXCEPT !.altitudeKm = sync.altitudeKm,
                  !.direction = sync.direction,
                  !.waitRemainingMs = sync.waitRemainingMs,
                  !.phase = sync.phase,
                  !.travelElapsedMs = sync.travelElapsedMs,
                  !.travelRemainingMs = Exact(sync.travelRemainingMs)]

updateRealtime(s, now) ==
    LET sync == getUTCSyncState(now)
    IN  [s EXCEPT !.altitudeKm = sync.altitudeKm,
                  !.direction = sync.direction,
                  !.waitRemainingMs = sync.waitRemainingMs,
                  !.phase = sync.phase,
                  !.travelElapsedMs = sync.travelElapsedMs,
                  !.travelRemainingMs = Exact(sync.travelRemainingMs),
                  !.speedKmh = DEFAULT_SPEED_KMH,
                  !.timeScale = 1]

updateCinema(s, now) ==
    LET elapsedMs == now - s._cinemaStartMs
        cinema == computeCinemaState(s._cinemaPreset, elapsedMs)
    IN  [s EXCEPT !.altitudeKm = cinema.altitudeKm,
                  !.direction = cinema.direction,
                  !.phase = cinema.phase,
                  !.speedKmh = DEFAULT_SPEED_KMH,
                  !.timeScale = cinema.timeScale,
                  !.travelElapsedMs = cinema.travelElapsedMs,
                  !.travelRemainingMs = Exact(cinema.travelRemainingMs),
                  !.waitRemainingMs = 0]

\* faulty variant: the wait ends without a direction
newDirNone(phase) == 0

\* the direction after a wait: up from the ground station, down otherwise
newDirAfterWait(phase) == IF phase = "wait-ground" THEN 1 ELSE -1

\* faulty variant: the wait counts the last frame only
updateWaitingLastFrame(s, now) ==
    LET deltaMs == now - s._prevUpdateMs
        waitAccum == Mul(deltaMs, s.timeScale)
        remaining == Sub(WAIT_DURATION_MS, waitAccum)
        newDir == newDirAfterWait(s.phase)
        startAlt == IF s.phase = "wait-ground" THEN GroundAlt ELSE CableAlt
    IN  IF Leq(remaining, 0) THEN
            [s EXCEPT !._prevUpdateMs = now,
                      !.startAltitudeKm = startAlt,
                      !.startTimeMs = now,
                      !.direction = newDir,
                      !._sandboxWaiting = FALSE,
                      !._waitAccumMs = 0,
                      !.waitRemainingMs = 0,
                      !.phase = IF newDir = 1 THEN "ascend" ELSE "descend",
                      !.altitudeKm = startAlt,
                      !.travelElapsedMs = 0,
                      !.travelRemainingMs = Exact(TRAVEL_DURATION_MS)]
        ELSE
            [s EXCEPT !._prevUpdateMs = now,
                      !._waitAccumMs = waitAccum,
                      !.direction = 0,
                      !.waitRemainingMs = remaining,
                      !.travelElapsedMs = 0,
                      !.travelRemainingMs = Exact(0)]

\* the sandbox branch while state._sandboxWaiting
updateWaiting(s, now) ==
    LET deltaMs == now - s._prevUpdateMs
        waitAccum == Add(s._waitAccumMs, Mul(deltaMs, s.timeScale))
        remaining == Sub(WAIT_DURATION_MS, waitAccum)
        newDir == newDirAfterWait(s.phase)
        startAlt == IF s.phase = "wait-ground" THEN GroundAlt ELSE CableAlt
    IN  IF Leq(remaining, 0) THEN
            [s EXCEPT !._prevUpdateMs = now,
                      !.startAltitudeKm = startAlt,
                      !.startTimeMs = now,
                      !.direction = newDir,
                      !._sandboxWaiting = FALSE,
                      !._waitAccumMs = 0,
                      !.waitRemainingMs = 0,
                      !.phase = IF newDir = 1 THEN "ascend" ELSE "descend",
                      !.altitudeKm = startAlt,
                      !.travelElapsedMs = 0,
                      !.travelRemainingMs = Exact(TRAVEL_DURATION_MS)]
        ELSE
            [s EXCEPT !._prevUpdateMs = now,
                      !._waitAccumMs = waitAccum,
                      !.direction = 0,
                      !.waitRemainingMs = remaining,
                      !.travelElapsedMs = 0,
                      !.travelRemainingMs = Exact(0)]

\* travelRemainingMs of the travelling branch: distance / speedKmh hours
travelRemaining(distance, speedKmh) ==
    Ratio(AltTimes(distance, HourTicks), Mul(HourUnits, speedKmh))

\* the sandbox branch while not waiting
updateMoving(s, now) ==
    LET alt == computeAltitude(s, now)
    IN  IF AltLeq(alt, GroundAlt) /\ s.direction = -1 THEN
            [s EXCEPT !._prevUpdateMs = now,
                      !.altitudeKm = GroundAlt,
                      !._sandboxWaiting = TRUE,
                      !._waitAccumMs = 0,
                      !.phase = "wait-ground",
                      !.direction = 0,
                      !.waitRemainingMs = WAIT_DURATION_MS,
                      !.travelElapsedMs = 0,
                      !.travelRemainingMs = Exact(0)]
        ELSE IF AltGeq(alt, CableAlt) /\ s.direction = 1 THEN
            [s EXCEPT !._prevUpdateMs = now,
                      !.altitudeKm = CableAlt,
                      !._sandboxWaiting = TRUE,
                      !._waitAccumMs = 0,
                      !.phase = "wait-top",
                      !.direction = 0,
                      !.waitRemainingMs = WAIT_DURATION_MS,
                      !.travelElapsedMs = 0,
                      !.travelRemainingMs = Exact(0)]
        ELSE IF s.direction # 0 THEN
            [s EXCEPT !._prevUpdateMs = now,
                      !.altitudeKm = alt,
                      !.phase = IF s.direction = 1 THEN "ascend" ELSE "descend",
                      !.travelElapsedMs = Mul(now - s.startTimeMs, s.timeScale),
                      !.travelRemainingMs =
                          IF s.direction = 1
                          THEN travelRemaining(AltSub(CableAlt, alt), s.speedKmh)
                          ELSE travelRemaining(alt, s.speedKmh),
                      !.waitRemainingMs = 0]
        ELSE
            [s EXCEPT !._prevUpdateMs = now,
                      !.altitudeKm = alt,
                      !.phase = "null",
                      !.waitRemainingMs = 0,
                      !.travelElapsedMs = 0,
                      !.travelRemainingMs = Exact(0)]

\* which branch of updateLocalState runs in state s
updateBranch(s) ==
    IF s.mode = "realtime" THEN "realtime"
    ELSE IF s.mode = "cinema" /\ s._cinemaPreset # NoPreset THEN "cinema"
    ELSE "sandbox"

updateLocalState(s, now) ==
    LET branch == updateBranch(s)
        t == IF branch = "realtime" THEN updateRealtime(s, now)
             ELSE IF branch = "cinema" THEN updateCinema(s, now)
             ELSE IF s._sandboxWaiting THEN updateWaiting(s, now)
             ELSE updateMoving(s, now)
    IN  [t EXCEPT !.effectiveGravityG = gravityG(t.altitudeKm)]

\* ------------------------------------------------------------- the state
VARIABLES
    now,      \* Date.now(), in ticks
    state,    \* the module-level state object of state.js
    ticks,    \* number of clock advances so far (bounds the exploration)
    ops,      \* number of mode and admin calls so far (bounds the exploration)
    lastOp,   \* the last operation: its name, whether its argument was valid,
              \* the mode it was called in and what it returned
    probe     \* what lies outside state.js: the argument and result of a pure
              \* function, or the module variables of main.js and the panel

vars == << now, state, ticks, ops, lastOp, probe >>

\* ---------------------------------------------------------------- bounds
MaxTicks == 2

MaxOps == 3

\* clock reading at module load: one tick before CYCLE_EPOCH_MS, so that the
\* run crosses the epoch
StartTimes == { CYCLE_EPOCH_MS - 1 }

\* how far the clock may advance between two operations
TickSteps == { 0, WAIT_DURATION_MS }

\* arguments of the admin setters: valid ones and invalid ones
ValidAltitudes == { ZeroAlt, Km(99990) }

InvalidAltitudes == { Km(-1), Km(100001), NaNAlt }

ValidSpeeds == { 0, 150 }

InvalidSpeeds == { -300 }

ValidDirections == { -1, 0, 1 }

InvalidDirections == { 2 }

ValidTimeScales == { 2 }

InvalidTimeScales == { 0, NaN }

Modes == { "realtime", "sandbox", "cinema" }

\* ------------------------------------------------------------------ Init
InitialState(t) ==
    [ altitudeKm |-> ZeroAlt,
      speedKmh |-> DEFAULT_SPEED_KMH,
      direction |-> 1,
      effectiveGravityG |-> [of |-> ZeroAlt, literal |-> TRUE],
      startAltitudeKm |-> ZeroAlt,
      startTimeMs |-> t,
      timeScale |-> 1,
      mode |-> "null",
      waitRemainingMs |-> 0,
      phase |-> "null",
      travelElapsedMs |-> 0,
      travelRemainingMs |-> Exact(0),
      _sandboxWaiting |-> FALSE,
      _waitAccumMs |-> 0,
      _prevUpdateMs |-> t,
      _cinemaPreset |-> NoPreset,
      _cinemaStartMs |-> 0 ]

Op(name, valid) ==
    [op |-> name, valid |-> valid, mode |-> state.mode, result |-> "undefined"]

NoProbe == [kind |-> "none"]

Init ==
    /\ now \in StartTimes
    /\ state = InitialState(now)
    /\ ticks = 0
    /\ ops = 0
    /\ lastOp = [op |-> "load", valid |-> TRUE, mode |-> "null", result |-> "undefined"]
    /\ probe = NoProbe

\* ------------------------------------------------------------ operations
\* one animation frame, d ticks after the previous operation: the render
\* loop calls updateLocalState(), which reads Date.now()
Frame(d) ==
    /\ d > 0 => ticks < MaxTicks
    /\ now' = now + d
    /\ ticks' = IF d > 0 THEN ticks + 1 ELSE ticks
    /\ state' = updateLocalState(state, now')
    /\ lastOp' = Op("updateLocalState", TRUE)
    /\ UNCHANGED << ops, probe >>

\* a call of the exported function `name`, leaving the state t
Call(name, valid, t) ==
    /\ ops < MaxOps
    /\ ops' = ops + 1
    /\ state' = t
    /\ lastOp' = Op(name, valid)
    /\ UNCHANGED << now, ticks, probe >>

setMode(s, mode) == [s EXCEPT !.mode = mode]

SetMode(mode) == Call("setMode", TRUE, setMode(state, mode))

setCinemaPreset(s, t, preset) ==
    [s EXCEPT !._cinemaPreset = preset, !._cinemaStartMs = t]

SetCinemaPreset(preset) == Call("setCinemaPreset", TRUE, setCinemaPreset(state, now, preset))

\* leaving realtime or cinema for sandbox, as setLocalSegment does
breakOutOfMode(s) ==
    IF s.mode = "cinema" \/ s.mode = "realtime"
    THEN [s EXCEPT !.mode = "sandbox", !._cinemaPreset = NoPreset, !.timeScale = 1]
    ELSE s

setLocalSegment(s, t, startAltitudeKm, speedKmh, direction) ==
    LET u == [breakOutOfMode(s) EXCEPT !.startAltitudeKm = startAltitudeKm,
                                       !.startTimeMs = t,
                                       !.speedKmh = speedKmh,
                                       !.direction = direction,
                                       !._sandboxWaiting = FALSE,
                                       !._waitAccumMs = 0]
    IN  updateLocalState(u, t)

adminSetAltitude(s, t, altitudeKm) ==
    setLocalSegment(s, t, altitudeKm, s.speedKmh, s.direction)

adminSetSpeed(s, t, speedKmh) ==
    setLocalSegment(s, t, s.altitudeKm, speedKmh, s.direction)

adminSetDirection(s, t, direction) ==
    setLocalSegment(s, t, s.altitudeKm, s.speedKmh, direction)

\* faulty variant: the time scale is changed without leaving realtime or cinema
adminSetTimeScaleKeepMode(s, t, scale) ==
    [s EXCEPT !.startAltitudeKm = s.altitudeKm,
              !.startTimeMs = t,
              !.timeScale = scale]

adminSetTimeScale(s, t, scale) ==
    LET u == IF s.mode = "cinema" \/ s.mode = "realtime"
             THEN [s EXCEPT !.mode = "sandbox", !._cinemaPreset = NoPreset]
             ELSE s
    IN  [u EXCEPT !.startAltitudeKm = s.altitudeKm,
                  !.startTimeMs = t,
                  !.timeScale = scale]

adminRestart(s, t) ==
    setLocalSegment(s, t, GroundAlt, DEFAULT_SPEED_KMH, 1)

adminReturnToRealtime(s) == [s EXCEPT !.mode = "realtime"]

AdminSetAltitude(a) == Call("adminSetAltitude", a \in ValidAltitudes, adminSetAltitude(state, now, a))

AdminSetSpeed(v) == Call("adminSetSpeed", v \in ValidSpeeds, adminSetSpeed(state, now, v))

AdminSetDirection(d) == Call("adminSetDirection", d \in ValidDirections, adminSetDirection(state, now, d))

AdminSetTimeScale(k) == Call("adminSetTimeScale", k \in ValidTimeScales, adminSetTimeScale(state, now, k))

AdminRestart == Call("adminRestart", TRUE, adminRestart(state, now))

AdminReturnToRealtime == Call("adminReturnToRealtime", TRUE, adminReturnToRealtime(state))

Next ==
    \/ \E d \in TickSteps : Frame(d)
    \/ \E m \in Modes : SetMode(m)
    \/ \E i \in 1..Len(CINEMA_MODES) : SetCinemaPreset(CINEMA_MODES[i])
    \/ \E a \in ValidAltitudes \cup InvalidAltitudes : AdminSetAltitude(a)
    \/ \E v \in ValidSpeeds \cup InvalidSpeeds : AdminSetSpeed(v)
    \/ \E d \in ValidDirections \cup InvalidDirections : AdminSetDirection(d)
    \/ \E k \in ValidTimeScales \cup InvalidTimeScales : AdminSetTimeScale(k)
    \/ AdminRestart
    \/ AdminReturnToRealtime

Spec == Init /\ [][Next]_vars

\* ------------------------------------------------------------------------
\* Specification SpecUTC: getUTCSyncState applied to every timestamp of a
\* window around CYCLE_EPOCH_MS
\* ------------------------------------------------------------------------
\* the window is UTCCycles cycles before and after the epoch
UTCCycles == 1

UTCSteps == { 1, WAIT_DURATION_MS }

InitUTC ==
    /\ now = CYCLE_EPOCH_MS - UTCCycles * CYCLE_DURATION_MS
    /\ state = InitialState(now)
    /\ ticks = 0
    /\ ops = 0
    /\ lastOp = [op |-> "load", valid |-> TRUE, mode |-> "null", result |-> "undefined"]
    \* entered: the time at which the current phase began, when the run saw it
    \* begin, and no time otherwise
    /\ probe = [kind |-> "utc", sync |-> getUTCSyncState(now), entered |-> {}]

SyncAt(d) ==
    /\ now + d <= CYCLE_EPOCH_MS + UTCCycles * CYCLE_DURATION_MS
    /\ now' = now + d
    /\ LET sync == getUTCSyncState(now')
       IN  probe' = [kind |-> "utc", sync |-> sync,
                     entered |-> IF sync.phase = probe.sync.phase THEN probe.entered
                                 ELSE IF d = 1 THEN { now' } ELSE {}]
    /\ UNCHANGED << state, ticks, ops, lastOp >>

NextUTC == \E d \in UTCSteps : SyncAt(d)

SpecUTC == InitUTC /\ [][NextUTC]_vars

\* ------------------------------------------------------------------------
\* Specification SpecCinema: computeCinemaState applied to every elapsed time
\* of a set of presets
\* ------------------------------------------------------------------------
\* how far past the end of a preset the elapsed time runs
CinemaOverrun == 12

\* the two presets of the program, the two-segment preset of the test plan
\* (0 -> 100 -> 200 km), a descent, and a preset that holds its altitude
ProbePresets ==
    { ExpressAscent, LudicrousSpeed,
      << Seg(0, 100, 4 * MsPerTick), Seg(100, 200, 4 * MsPerTick) >>,
      << Seg(200, 100, 4 * MsPerTick), Seg(100, 0, 2 * MsPerTick) >>,
      << Seg(0, 100, 2 * MsPerTick), Seg(100, 100, 4 * MsPerTick), Seg(100, 0, 2 * MsPerTick) >> }

CinemaProbe(preset, elapsedMs) ==
    [kind |-> "cinema", preset |-> preset, elapsedMs |-> elapsedMs,
     out |-> computeCinemaState(preset, elapsedMs)]

InitCinema ==
    /\ now \in StartTimes
    /\ state = InitialState(now)
    /\ ticks = 0
    /\ ops = 0
    /\ lastOp = [op |-> "load", valid |-> TRUE, mode |-> "null", result |-> "undefined"]
    /\ \E preset \in ProbePresets : probe = CinemaProbe(preset, 0)

CinemaAt(d) ==
    /\ probe.elapsedMs + d <= SumDurations(probe.preset, 1) + CinemaOverrun
    /\ probe' = CinemaProbe(probe.preset, probe.elapsedMs + d)
    /\ UNCHANGED << now, state, ticks, ops, lastOp >>

NextCinema == \E d \in { 1, 2 } : CinemaAt(d)

SpecCinema == InitCinema /\ [][NextCinema]_vars

\* ------------------------------------------------------------------------
\* Specification SpecTrip: the sandbox round trip, frames only
\* ------------------------------------------------------------------------
\* the frames stop MaxTripCycles real-time cycles after the start
MaxTripCycles == 2

\* frames come a quarter of a wait apart while the cabin waits, and an eighth or
\* a quarter of a travel apart otherwise
TripSteps ==
    IF state._sandboxWaiting
    THEN { WAIT_DURATION_MS \div 4, WAIT_DURATION_MS \div 2 }
    ELSE { TRAVEL_DURATION_MS \div 8, TRAVEL_DURATION_MS \div 4 }

\* sandbox mode selected, then the cabin put at altitude 0 (or restarted at the
\* ground station), direction +1, time scale 1 or 2
TripStarts(t) ==
    LET sandbox == setMode(InitialState(t), "sandbox")
        at0 == adminSetAltitude(sandbox, t, ZeroAlt)
    IN  { at0, adminSetTimeScale(at0, t, 2), adminRestart(sandbox, t) }

\* the descent of the round trip has ended
Returned == state.phase = "wait-ground"

InitTrip ==
    /\ now \in StartTimes
    /\ state \in TripStarts(now)
    /\ ticks = 0
    /\ ops = 0
    /\ lastOp = [op |-> "load", valid |-> TRUE, mode |-> "null", result |-> "undefined"]
    /\ probe = [kind |-> "trip", origin |-> state.altitudeKm, started |-> now]

TripFrame(d) ==
    /\ ~Returned
    /\ now + d <= probe.started + MaxTripCycles * CYCLE_DURATION_MS
    /\ now' = now + d
    /\ state' = updateLocalState(state, now')
    /\ lastOp' = Op("updateLocalState", TRUE)
    /\ UNCHANGED << ticks, ops, probe >>

NextTrip == \E d \in TripSteps : TripFrame(d)

\* the render loop keeps requesting animation frames
SpecTrip == InitTrip /\ [][NextTrip]_vars /\ WF_vars(NextTrip)

\* ------------------------------------------------------------------------
\* Specification SpecApp: main.js (render loop, mode selector, milestones) and
\* the settings panel, on top of state.js
\* ------------------------------------------------------------------------
\* the altitudes of MILESTONES (constants.js), in units of 0.01 km
MILESTONES ==
    { 0, 885, 10 * UnitsPerKm, 100 * UnitsPerKm, 200 * UnitsPerKm, 408 * UnitsPerKm,
      550 * UnitsPerKm, 1000 * UnitsPerKm, 2000 * UnitsPerKm, 12550 * UnitsPerKm,
      20200 * UnitsPerKm, 35786 * UnitsPerKm, 75600 * UnitsPerKm, 100000 * UnitsPerKm }

\* Math.max(m.altitude * 0.01, 1)
milestoneThreshold(m) == AltMax(AltQuot(m, 100), Km(1))

\* faulty variant: a milestone is never taken as triggered
hasNever(triggered, key) == FALSE

\* triggeredMilestones.has(key)
hasTriggered(triggered, key) == key \in triggered

\* the milestones of `milestones` that checkMilestones(altitudeKm) announces:
\* the tests of two milestones do not depend on each other
firedMilestones(milestones, triggered, altitudeKm) ==
    { m \in milestones :
          /\ ~hasTriggered(triggered, m)
          /\ AltLt(AltDistance(altitudeKm, Alt(m, 0)), milestoneThreshold(m)) }

\* faulty variant: a handler that enters real-time mode marks nothing
premarkedNone(currentAlt) == {}

\* the milestones at or below currentAlt, which the handlers mark as triggered
premarked(currentAlt) == { m \in MILESTONES : AltLeq(Alt(m, 0), currentAlt) }

\* faulty variant: the render loop checks the milestones in every mode
milestonesAlways(selectedMode) == TRUE

\* if (selectedMode !== "cinema") checkMilestones(altitudeKm)
milestonesChecked(selectedMode) == selectedMode # "cinema"

\* clock readings at page load: one in each real-time phase
AppStartTimes ==
    { CYCLE_EPOCH_MS - 1, CYCLE_EPOCH_MS, CYCLE_EPOCH_MS + phase1End,
      CYCLE_EPOCH_MS + phase2End }

\* altitudes of the panel's quick buttons and text field, and its time scales
PanelAltitudes == { GroundAlt, Km(10), Km(99990) }

PanelTimeScales == { 10 }

PanelDirections == { -1, 0, 1 }

InitApp ==
    /\ now \in AppStartTimes
    /\ state = InitialState(now)
    /\ ticks = 0
    /\ ops = 0
    /\ lastOp = [op |-> "load", valid |-> TRUE, mode |-> "null", result |-> "undefined"]
    /\ probe = [ kind |-> "app",
                 selectedMode |-> "null",
                 triggered |-> {},                       \* triggeredMilestones
                 shown |-> [m \in MILESTONES |-> 0],     \* showMilestone(m) calls
                 visible |-> FALSE,                      \* adminPanel.visible
                 \* the altitude the panel froze when it opened in real-time
                 \* mode, until the next admin operation
                 frozen |-> {} ]

\* animate(): one frame, d ticks after the previous one
AppFrame(d) ==
    /\ d > 0 => ticks < MaxTicks
    /\ now' = now + d
    /\ ticks' = IF d > 0 THEN ticks + 1 ELSE ticks
    /\ state' = updateLocalState(state, now')
    /\ lastOp' = Op("animate", TRUE)
    /\ LET fired == IF milestonesChecked(probe.selectedMode)
                    THEN firedMilestones(MILESTONES, probe.triggered, state'.altitudeKm)
                    ELSE {}
       IN  probe' = [probe EXCEPT
                        !.triggered = @ \cup fired,
                        !.shown = [m \in MILESTONES |-> IF m \in fired THEN @[m] + 1 ELSE @[m]]]
    /\ UNCHANGED ops

\* a handler of main.js or of the panel, leaving the state t and the
\* variables of main.js p
Handler(name, t, p) ==
    /\ ops < MaxOps
    /\ ops' = ops + 1
    /\ state' = t
    /\ probe' = p
    /\ lastOp' = Op(name, TRUE)
    /\ UNCHANGED << now, ticks >>

\* click on a button of the mode selector (the loading screen)
SelectMode(mode, i) ==
    /\ probe.selectedMode = "null"
    /\ LET selected == setMode(state, mode)
           t == IF mode = "cinema" THEN setCinemaPreset(selected, now, CINEMA_MODES[i])
                ELSE IF mode = "realtime" THEN updateLocalState(selected, now)
                ELSE adminRestart(selected, now)
       IN  Handler(IF mode = "realtime" THEN "selectRealtime" ELSE "selectMode", t,
                   [probe EXCEPT
                       !.selectedMode = mode,
                       !.triggered = IF mode = "realtime"
                                     THEN @ \cup premarked(t.altitudeKm) ELSE @,
                       !.frozen = {}])

\* AdminPanel.show(), with adminPanel.onEnterSandbox
PanelShow ==
    /\ ~probe.visible
    /\ IF state.mode = "realtime"
       THEN Handler("onEnterSandbox", adminSetAltitude(state, now, state.altitudeKm),
                    [probe EXCEPT !.selectedMode = "sandbox", !.visible = TRUE,
                                  !.frozen = { state.altitudeKm }])
       ELSE Handler("show", state, [probe EXCEPT !.visible = TRUE])

\* AdminPanel.hide()
PanelHide ==
    /\ probe.visible
    /\ Handler("hide", state, [probe EXCEPT !.visible = FALSE])

\* the panel's altitude, time scale and direction buttons
PanelSetAltitude(a) ==
    /\ probe.visible
    /\ Handler("adminSetAltitude", adminSetAltitude(state, now, a), [probe EXCEPT !.frozen = {}])

PanelSetTimeScale(k) ==
    /\ probe.visible
    /\ Handler("adminSetTimeScale", adminSetTimeScale(state, now, k), [probe EXCEPT !.frozen = {}])

PanelSetDirection(d) ==
    /\ probe.visible
    /\ Handler("adminSetDirection", adminSetDirection(state, now, d), [probe EXCEPT !.frozen = {}])

\* the panel's "Return to Real-time" button: adminPanel.onReturnToRealtime
ReturnToRealtime ==
    /\ probe.visible
    /\ LET t == updateLocalState(adminReturnToRealtime(state), now)
       IN  Handler("onReturnToRealtime", t,
                   [probe EXCEPT !.selectedMode = "realtime",
                                 !.triggered = @ \cup premarked(t.altitudeKm),
                                 !.visible = FALSE,
                                 !.frozen = {}])

NextApp ==
    \/ \E d \in TickSteps : AppFrame(d)
    \/ \E m \in Modes, i \in 1..Len(CINEMA_MODES) : SelectMode(m, i)
    \/ PanelShow
    \/ PanelHide
    \/ \E a \in PanelAltitudes : PanelSetAltitude(a)
    \/ \E k \in PanelTimeScales : PanelSetTimeScale(k)
    \/ \E d \in PanelDirections : PanelSetDirection(d)
    \/ ReturnToRealtime

SpecApp == InitApp /\ [][NextApp]_vars

\* ------------------------------------------------------------------------
\* Specification SpecMilestones: checkMilestones fed one altitude per frame
\* ------------------------------------------------------------------------
\* number of altitude samples
MaxSamples == 6

\* the thresholds 10 km and 100 km
TestThresholds == { 10 * UnitsPerKm, 100 * UnitsPerKm }

\* the samples 5, 9, 11, 50, 99 and 101 km, and 9.5 km
SampleAltitudes == { Km(5), Km(9), Alt(950, 0), Km(11), Km(50), Km(99), Km(101) }

InitMilestones ==
    /\ now \in StartTimes
    /\ state = InitialState(now)
    /\ ticks = 0
    /\ ops = 0
    /\ lastOp = [op |-> "load", valid |-> TRUE, mode |-> "null", result |-> "undefined"]
    /\ probe = [ kind |-> "milestones",
                 samples |-> << >>,       \* the altitudes passed so far
                 triggered |-> {},        \* triggeredMilestones
                 fired |-> {} ]           \* showMilestone calls: milestone and sample

\* one frame: checkMilestones(altitudeKm)
Sample(altitudeKm) ==
    /\ Len(probe.samples) < MaxSamples
    /\ LET fired == firedMilestones(TestThresholds, probe.triggered, altitudeKm)
           at == Len(probe.samples) + 1
       IN  probe' = [probe EXCEPT
                        !.samples = Append(@, altitudeKm),
                        !.triggered = @ \cup fired,
                        !.fired = @ \cup { [m |-> m, at |-> at] : m \in fired }]
    /\ UNCHANGED << now, state, ticks, ops, lastOp >>

NextMilestones == \E a \in SampleAltitudes : Sample(a)

SpecMilestones == InitMilestones /\ [][NextMilestones]_vars

\* ------------------------------------------------------------------------
\* Specification SpecController: the vertical part of FirstPersonController
\* (src/src/controls/FirstPersonController.js)
\*
\* Units.  deltaTime is counted in quarters of a second and a length in
\* sixteenths of a millimetre, so that an acceleration of 1 mm/s2 is one
\* length unit per time unit squared, a velocity of 1 mm/s is four length
\* units per time unit, and every product of update() is an integer.  An
\* angle is counted in 2^-20 of PI and rounded to that grid.
\* ------------------------------------------------------------------------
MmPerSecond == 4

Metre == 16 * 1000

\* constants.js and Cabin.js
EYE_HEIGHT == (17 * Metre) \div 10

HEAD_CLEARANCE == (3 * Metre) \div 10

SAFETY_NET_DELAY == 15 * 4

\* 0.005 m/s2
SAFETY_NET_FORCE == 5

\* 9.80 m/s2
MAG_BOOTS_FORCE == 9800

floorY == 0 * Metre

ceilY == 6 * Metre

PI == 2^20

\* |flipAngle - targetFlipAngle| < 0.001 rad, on the grid: fewer than 334 units
FlipSnap == 334

\* getEffectiveGravity(altitudeKm) in mm/s2 at three altitudes: near the ground,
\* at the geostationary altitude, and above it where the pull is 0.49 m/s2
\* outwards
GravityValues == { 9800, 0, -490 }

\* deltaTime: no time, a quarter of a second, sixteen seconds
DeltaTimes == { 0, 1, 64 }

Min(a, b) == IF a <= b THEN a ELSE b

\* a / b rounded towards zero
Trunc(a, b) == IF a >= 0 THEN a \div b ELSE -((-a) \div b)

\* Math.sqrt(n), rounded down, for the n of a jump below 3 m/s
Sqrt(n) == CHOOSE r \in 0..3000 : r * r <= n /\ n < (r + 1) * (r + 1)

\* jumpSpeed in mm/s for |gEff| in mm/s2: min(3.0, gAbs > 0.1 ? sqrt(2 * gAbs * 2) : 0.63)
jumpSpeed(gAbs) ==
    IF gAbs > 100
    THEN (IF 4000 * gAbs >= 3000 * 3000 THEN 3000 ELSE Sqrt(4000 * gAbs))
    ELSE 630

\* faulty variant: the body orientation follows the sign of gravity
bodyInvertedByGravity(flipAngle, gEff) == gEff < 0

\* const bodyInverted = this.flipAngle > Math.PI / 2
bodyInvertedOf(flipAngle, gEff) == flipAngle > PI \div 2

\* faulty variant: the ceiling is not tested
collideFloorOnly(c, newY, bodyInverted) ==
    IF bodyInverted
    THEN IF newY - HEAD_CLEARANCE <= floorY
         THEN [c EXCEPT !.y = floorY + HEAD_CLEARANCE, !.verticalVelocity = 0,
                        !.onFloor = TRUE, !.onCeiling = FALSE]
         ELSE [c EXCEPT !.y = newY, !.onFloor = FALSE, !.onCeiling = FALSE]
    ELSE IF newY - EYE_HEIGHT <= floorY
         THEN [c EXCEPT !.y = floorY + EYE_HEIGHT, !.verticalVelocity = 0,
                        !.onFloor = TRUE, !.onCeiling = FALSE]
         ELSE [c EXCEPT !.y = newY, !.onFloor = FALSE, !.onCeiling = FALSE]

\* faulty variant: landing on a surface leaves the other contact flag as it was
collideKeepFlags(c, newY, bodyInverted) ==
    IF (IF bodyInverted THEN newY + EYE_HEIGHT ELSE newY + HEAD_CLEARANCE) >= ceilY
    THEN [c EXCEPT !.y = ceilY - (IF bodyInverted THEN EYE_HEIGHT ELSE HEAD_CLEARANCE),
                   !.verticalVelocity = 0, !.onCeiling = TRUE]
    ELSE IF (IF bodyInverted THEN newY - HEAD_CLEARANCE ELSE newY - EYE_HEIGHT) <= floorY
    THEN [c EXCEPT !.y = floorY + (IF bodyInverted THEN HEAD_CLEARANCE ELSE EYE_HEIGHT),
                   !.verticalVelocity = 0, !.onFloor = TRUE]
    ELSE [c EXCEPT !.y = newY]

\* the collision detection of update(); y stands for newY, which update()
\* assigns to camera.position.y at its end
collide(c, newY, bodyInverted) ==
    IF ~bodyInverted THEN
        LET feetY == newY - EYE_HEIGHT
            headTopY == newY + HEAD_CLEARANCE
        IN  IF feetY <= floorY THEN
                [c EXCEPT !.y = floorY + EYE_HEIGHT, !.verticalVelocity = 0,
                          !.onFloor = TRUE, !.onCeiling = FALSE]
            ELSE IF headTopY >= ceilY THEN
                [c EXCEPT !.y = ceilY - HEAD_CLEARANCE, !.verticalVelocity = 0,
                          !.onFloor = FALSE, !.onCeiling = TRUE]
            ELSE [c EXCEPT !.y = newY, !.onFloor = FALSE, !.onCeiling = FALSE]
    ELSE
        LET feetY == newY + EYE_HEIGHT
            headBottomY == newY - HEAD_CLEARANCE
        IN  IF feetY >= ceilY THEN
                [c EXCEPT !.y = ceilY - EYE_HEIGHT, !.verticalVelocity = 0,
                          !.onFloor = FALSE, !.onCeiling = TRUE]
            ELSE IF headBottomY <= floorY THEN
                [c EXCEPT !.y = floorY + HEAD_CLEARANCE, !.verticalVelocity = 0,
                          !.onFloor = TRUE, !.onCeiling = FALSE]
            ELSE [c EXCEPT !.y = newY, !.onFloor = FALSE, !.onCeiling = FALSE]

\* faulty variant: the safety net pushes nothing
noNudge(toward, deltaTime) == 0

\* toward * nudge * deltaTime
safetyNudge(toward, deltaTime) == toward * SAFETY_NET_FORCE * deltaTime

\* the safety net of update(): cameraY is camera.position.y before this update
safetyNet(c, cameraY, deltaTime) ==
    IF ~c.onFloor /\ ~c.onCeiling THEN
        LET floatingTime == IF Abs(c.verticalVelocity) < MmPerSecond \div 2
                            THEN c.floatingTime + deltaTime ELSE 0
            midY == (floorY + ceilY) \div 2
            toward == IF cameraY > midY THEN 1 ELSE -1
        IN  [c EXCEPT !.floatingTime = floatingTime,
                      !.verticalVelocity =
                          IF floatingTime > SAFETY_NET_DELAY
                          THEN @ + safetyNudge(toward, deltaTime) ELSE @]
    ELSE [c EXCEPT !.floatingTime = 0]

\* FirstPersonController.update(deltaTime, altitudeKm), with
\* gEff = getEffectiveGravity(altitudeKm)
controllerUpdate(c, deltaTime, gEff) ==
    IF ~c.isLocked THEN c
    ELSE
        LET target == IF gEff < 0 THEN PI ELSE IF gEff > 0 THEN 0 ELSE c.targetFlipAngle
            approached == c.flipAngle + Trunc((target - c.flipAngle) * Min(2, deltaTime), 2)
            flipAngle == IF Abs(approached - target) < FlipSnap THEN target ELSE approached
            bodyInverted == bodyInvertedOf(flipAngle, gEff)
            jumpImpulse == jumpSpeed(Abs(gEff)) * MmPerSecond
            jumped == IF c.jumping
                      THEN [c EXCEPT !.verticalVelocity =
                                         IF c.onFloor THEN jumpImpulse
                                         ELSE IF c.onCeiling THEN -jumpImpulse ELSE @,
                                     !.onFloor = FALSE, !.onCeiling = FALSE,
                                     !.jumping = FALSE]
                      ELSE c
            fallen == jumped.verticalVelocity - gEff * deltaTime
            booted == IF c.magBootsHeld
                      THEN (IF bodyInverted THEN fallen + MAG_BOOTS_FORCE * deltaTime
                            ELSE fallen - MAG_BOOTS_FORCE * deltaTime)
                      ELSE fallen
            newY == c.y + booted * deltaTime
            moved == [jumped EXCEPT !.currentGEff = gEff,
                                    !.targetFlipAngle = target,
                                    !.flipAngle = flipAngle,
                                    !.bodyInverted = bodyInverted,
                                    !.verticalVelocity = booted]
        IN  safetyNet(collide(moved, newY, bodyInverted), c.y, deltaTime)

\* the number of update() calls explored
MaxUpdates == 4

\* the controller after its constructor and main.js: camera.position.y = EYE_HEIGHT
InitialController ==
    [ kind             |-> "controller",
      y                |-> EYE_HEIGHT,
      verticalVelocity |-> 0,
      flipAngle        |-> 0,
      targetFlipAngle  |-> 0,
      bodyInverted     |-> FALSE,
      jumping          |-> FALSE,
      onFloor          |-> TRUE,
      onCeiling        |-> FALSE,
      magBootsHeld     |-> FALSE,
      floatingTime     |-> 0,
      currentGEff      |-> 9800,
      isLocked         |-> FALSE ]

InitController ==
    /\ now = CYCLE_EPOCH_MS
    /\ state = InitialState(now)
    /\ ticks = 0
    /\ ops = 0
    /\ lastOp = [op |-> "constructor", args |-> << >>]
    /\ probe = InitialController

ControllerStep(name, args, c) ==
    /\ probe' = c
    /\ lastOp' = [op |-> name, args |-> args]
    /\ UNCHANGED << now, state, ops >>

\* animate(): controller.update(delta, altitudeKm)
Update(deltaTime, gEff) ==
    /\ ticks < MaxUpdates
    /\ ticks' = ticks + 1
    /\ ControllerStep("update", << deltaTime, gEff >>, controllerUpdate(probe, deltaTime, gEff))

\* faulty variant: Space asks for a jump wherever the body is
keydownSpaceAnywhere(c) == [c EXCEPT !.jumping = TRUE]

\* the keydown handler, case 'Space'
keydownSpace(c) ==
    IF c.onFloor \/ c.onCeiling THEN [c EXCEPT !.jumping = TRUE] ELSE c

\* keydown Space
KeySpace ==
    /\ ControllerStep("keydown Space", << >>, keydownSpace(probe))
    /\ UNCHANGED ticks

\* keydown KeyG and keyup KeyG
KeyG(held) ==
    /\ ControllerStep("key G", << held >>, [probe EXCEPT !.magBootsHeld = held])
    /\ UNCHANGED ticks

\* controller.lock(), and the pointer lock lost
PointerLock(locked) ==
    /\ ControllerStep("pointerlockchange", << locked >>, [probe EXCEPT !.isLocked = locked])
    /\ UNCHANGED ticks

NextController ==
    \/ \E deltaTime \in DeltaTimes, gEff \in GravityValues : Update(deltaTime, gEff)
    \/ KeySpace
    \/ \E held \in BOOLEAN : KeyG(held)
    \/ \E locked \in BOOLEAN : PointerLock(locked)

SpecController == InitController /\ [][NextController]_vars

\* ------------------------------------------------------------------------
\* Specification SpecFloat: the controller left airborne and at rest in the
\* cabin at an altitude where effective gravity is inside the dead zone, with
\* no key pressed, under updates that all take time.  animate() runs on every
\* animation frame, so an update that can happen does happen.
\* ------------------------------------------------------------------------
\* the number of update() calls explored: the slowest landing, 2.7 m at the
\* 10 mm/s of a two-second nudge in two-second frames, takes 143 of them
MaxFloatUpdates == 160

\* deltaTime: two seconds, sixteen seconds
FloatSteps == { 8, 64 }

\* camera heights at which the body touches nothing in either orientation: the
\* middle of the cabin, just above it, and 1.125 m to either side
FloatHeights ==
    LET midY == (floorY + ceilY) \div 2
    IN  { midY, midY + 1, midY - 18 * 1000, midY + 18 * 1000 }

InitFloat ==
    /\ now = CYCLE_EPOCH_MS
    /\ state = InitialState(now)
    /\ ticks = 0
    /\ ops = 0
    /\ lastOp = [op |-> "constructor", args |-> << >>]
    /\ \E y \in FloatHeights, inverted \in BOOLEAN :
           probe = [InitialController EXCEPT
                        !.y = y,
                        !.flipAngle = IF inverted THEN PI ELSE 0,
                        !.targetFlipAngle = IF inverted THEN PI ELSE 0,
                        !.bodyInverted = inverted,
                        !.onFloor = FALSE,
                        !.currentGEff = 0,
                        !.isLocked = TRUE]

\* animate(): controller.update(delta, altitudeKm) in the dead zone
FloatUpdate(deltaTime) ==
    /\ ticks < MaxFloatUpdates
    /\ ticks' = ticks + 1
    /\ ControllerStep("update", << deltaTime, 0 >>, controllerUpdate(probe, deltaTime, 0))

\* the frame counter of FloatUpdate alone
FloatFrame ==
    /\ ticks < MaxFloatUpdates
    /\ ticks' = ticks + 1

NextFloat == \E deltaTime \in FloatSteps : FloatUpdate(deltaTime)

SpecFloat == InitFloat /\ [][NextFloat]_vars /\ WF_ticks(FloatFrame)

\* ------------------------------------------------------------------------
\* Specification SpecGravity: getEffectiveGravity (src/src/simulation/physics.js)
\* evaluated at one altitude after another
\*
\* The sign of getEffectiveGravity and the order of two of its values are
\* decided in exact arithmetic.  With r the distance from the centre in units
\* of 0.01 km,
\*     SURFACE_GRAVITY * (R / r)^2 - EARTH_ROTATION_RATE^2 * r * 1000
\* has the sign of  GravA - GravB * r^3  and equals that number over a positive
\* multiple of r^2, for the natural numbers GravA and GravB below.  These
\* numbers do not fit a machine integer, so a natural number is kept as the
\* sequence of its digits in base 10^4, least significant first.
\* ------------------------------------------------------------------------
Base == 10000

RECURSIVE BigOf(_)
BigOf(n) == IF n < Base THEN << n >> ELSE << n % Base >> \o BigOf(n \div Base)

\* carries propagated through a sequence of digits that may exceed the base
RECURSIVE BigNorm(_, _)
BigNorm(digits, carry) ==
    IF digits = << >> THEN (IF carry = 0 THEN << >> ELSE BigOf(carry))
    ELSE LET d == Head(digits) + carry
         IN  << d % Base >> \o BigNorm(Tail(digits), d \div Base)

\* leading zero digits removed
RECURSIVE BigTrim(_)
BigTrim(a) ==
    IF Len(a) > 1 /\ a[Len(a)] = 0 THEN BigTrim(SubSeq(a, 1, Len(a) - 1)) ELSE a

BigAdd(a, b) ==
    LET n == IF Len(a) >= Len(b) THEN Len(a) ELSE Len(b)
        digit(x, k) == IF k <= Len(x) THEN x[k] ELSE 0
    IN  BigTrim(BigNorm([k \in 1..n |-> digit(a, k) + digit(b, k)], 0))

\* sum of a[j] * b[k + 1 - j] for j from lo to hi
RECURSIVE BigDot(_, _, _, _, _)
BigDot(a, b, k, lo, hi) ==
    IF lo > hi THEN 0 ELSE a[lo] * b[k + 1 - lo] + BigDot(a, b, k, lo + 1, hi)

BigMul(a, b) ==
    LET lo(k) == IF k + 1 - Len(b) > 1 THEN k + 1 - Len(b) ELSE 1
        hi(k) == IF k < Len(a) THEN k ELSE Len(a)
    IN  BigTrim(BigNorm([k \in 1..(Len(a) + Len(b) - 1) |->
                             BigDot(a, b, k, lo(k), hi(k))], 0))

\* -1, 0 or 1 as a is below, equal to or above b
RECURSIVE BigCompareFrom(_, _, _)
BigCompareFrom(a, b, k) ==
    IF k = 0 THEN 0
    ELSE IF a[k] < b[k] THEN -1
    ELSE IF a[k] > b[k] THEN 1
    ELSE BigCompareFrom(a, b, k - 1)

BigCompare(a, b) ==
    IF Len(a) < Len(b) THEN -1
    ELSE IF Len(a) > Len(b) THEN 1
    ELSE BigCompareFrom(a, b, Len(a))

\* constants.js
EARTH_RADIUS == 6371 * UnitsPerKm

GEO_ALTITUDE == 35786 * UnitsPerKm

\* SURFACE_GRAVITY = 9814 * 10^-3 and EARTH_ROTATION_RATE^2 * 1000 =
\* 72921^2 * 10^-15 with the radii in km; with the radii in units of 0.01 km,
\* r^2 times the effective gravity is 10^-21 times GravA - GravB * r^3
GravA ==
    LET million == BigOf(1000 * 1000)
    IN  BigMul(BigMul(BigOf(9814), BigMul(BigOf(EARTH_RADIUS), BigOf(EARTH_RADIUS))),
               BigMul(BigMul(million, million), BigOf(100)))

\* EARTH_ROTATION_RATE^2 = (72921 * 10^-9)^2
GravB == BigMul(BigOf(72921), BigOf(72921))

BigSquare(a) == BigMul(a, a)

BigCube(a) == BigMul(a, BigMul(a, a))

radiusAt(altitude) == BigOf(EARTH_RADIUS + altitude)

\* the sign of getEffectiveGravity(altitude)
gravitySign(altitude) ==
    BigCompare(GravA, BigMul(GravB, BigCube(radiusAt(altitude))))

\* getEffectiveGravity(a1) > getEffectiveGravity(a2): with r1, r2 the radii,
\* (GravA - GravB r1^3) / r1^2 > (GravA - GravB r2^3) / r2^2, cleared of its
\* denominators and of its subtractions
gravityAbove(a1, a2) ==
    LET r1 == radiusAt(a1)
        r2 == radiusAt(a2)
    IN  BigCompare(
            BigAdd(BigMul(GravA, BigSquare(r2)), BigMul(GravB, BigMul(BigCube(r2), BigSquare(r1)))),
            BigAdd(BigMul(GravA, BigSquare(r1)), BigMul(GravB, BigMul(BigCube(r1), BigSquare(r2))))) = 1

\* GEO_ALTITUDE * 1e-6, rounded up to the altitude grid
GeoTolerance == (GEO_ALTITUDE + 999999) \div 1000000

\* every 5000 km of the cable, and the neighbourhood of GEO_ALTITUDE
GravityAltitudes ==
    { k * 5000 * UnitsPerKm : k \in 0..20 }
        \cup { GEO_ALTITUDE - 2 * UnitsPerKm, GEO_ALTITUDE - UnitsPerKm,
               GEO_ALTITUDE - GeoTolerance, GEO_ALTITUDE,
               GEO_ALTITUDE + GeoTolerance, GEO_ALTITUDE + UnitsPerKm }

GravityProbe(previous, altitudeKm) ==
    [ kind       |-> "gravity",
      previous   |-> previous,
      altitudeKm |-> altitudeKm,
      sign       |-> gravitySign(altitudeKm),
      fell       |-> gravityAbove(previous, altitudeKm) ]

InitGravity ==
    /\ now = CYCLE_EPOCH_MS
    /\ state = InitialState(now)
    /\ ticks = 0
    /\ ops = 0
    /\ lastOp = [op |-> "load", altitudeKm |-> 0]
    /\ probe = GravityProbe(0, 0)

\* getEffectiveGravity(altitudeKm), after the call for the altitude before
GravityAt(altitudeKm) ==
    /\ probe' = GravityProbe(probe.altitudeKm, altitudeKm)
    /\ lastOp' = [op |-> "getEffectiveGravity", altitudeKm |-> altitudeKm]
    /\ UNCHANGED << now, state, ticks, ops >>

NextGravity == \E altitudeKm \in GravityAltitudes : GravityAt(altitudeKm)

SpecGravity == InitGravity /\ [][NextGravity]_vars

\* ------------------------------------------------------------------------
\* Specification SpecNet: the networked variant of state.js
\* (src/unnamed/part_009, lines 1-119) with a server that cannot be reached or
\* answers non-ok.  An admin call runs up to its fetch, stays in flight while
\* frames, polls and other calls run, and resumes when the fetch is settled.
\* ------------------------------------------------------------------------
\* the number of clock advances explored
MaxNetTicks == 3

\* the number of admin calls explored
MaxNetCalls == 2

NetSpeeds == { 0, 380 }

NetDirections == { -1, 0, 1 }

NetAltitudes == { Km(1000) }

\* a fetch rejects (server unreachable) or resolves with res.ok false
FetchOutcomes == { "unreachable", "non-ok" }

NetInitialState(t) ==
    [ altitudeKm       |-> ZeroAlt,
      speedKmh         |-> 190,
      direction        |-> 1,
      effectiveGravityG |-> [of |-> ZeroAlt, literal |-> TRUE],
      startAltitudeKm  |-> ZeroAlt,
      startTimeMs      |-> t,
      lastPollTime     |-> 0,
      serverAvailable  |-> FALSE,
      timeScale        |-> 1 ]

netUpdateLocalState(s, t) ==
    LET altitudeKm == computeAltitude(s, t)
    IN  [s EXCEPT !.altitudeKm = altitudeKm, !.effectiveGravityG = gravityG(altitudeKm)]

netSetLocalSegment(s, t, startAltitudeKm, speedKmh, direction) ==
    netUpdateLocalState([s EXCEPT !.startAltitudeKm = startAltitudeKm,
                                  !.startTimeMs = t,
                                  !.speedKmh = speedKmh,
                                  !.direction = direction], t)

\* the part of an admin call after its fetch has failed; q holds what the call
\* computed before the fetch
netFallback(s, t, q) ==
    IF q.op = "adminSetAltitude" THEN netSetLocalSegment(s, t, q.arg, s.speedKmh, s.direction)
    ELSE IF q.op = "adminSetSpeed" THEN netSetLocalSegment(s, t, q.currentAlt, q.arg, s.direction)
    ELSE IF q.op = "adminSetDirection" THEN netSetLocalSegment(s, t, q.currentAlt, s.speedKmh, q.arg)
    ELSE netSetLocalSegment(s, t, ZeroAlt, 190, 1)

InitNet ==
    /\ now \in StartTimes
    /\ state = NetInitialState(now)
    /\ ticks = 0
    /\ ops = 0
    /\ lastOp = [op |-> "load"]
    /\ probe = [kind |-> "net", inflight |-> {}, polling |-> FALSE]

\* one animation frame d ticks later
NetFrame(d) ==
    /\ ticks < MaxNetTicks
    /\ ticks' = ticks + 1
    /\ now' = now + d
    /\ state' = netUpdateLocalState(state, now')
    /\ lastOp' = [op |-> "updateLocalState"]
    /\ UNCHANGED << ops, probe >>

\* an admin call up to its await fetch(...)
NetCall(op, arg) ==
    /\ ops < MaxNetCalls
    /\ ops' = ops + 1
    /\ probe' = [probe EXCEPT !.inflight = @ \cup
                     { [ id |-> ops, op |-> op, arg |-> arg,
                         currentAlt |-> IF op \in { "adminSetSpeed", "adminSetDirection" }
                                        THEN computeAltitude(state, now) ELSE ZeroAlt ] }]
    /\ lastOp' = [op |-> op, arg |-> arg]
    /\ UNCHANGED << now, state, ticks >>

\* the fetch of the admin call q fails, and the call runs to its end
NetFetchFails(q, outcome) ==
    /\ q \in probe.inflight
    /\ probe' = [probe EXCEPT !.inflight = @ \ { q }]
    /\ state' = netFallback(state, now, q)
    /\ lastOp' = [op |-> "fallback", of |-> q, outcome |-> outcome]
    /\ UNCHANGED << now, ticks, ops >>

\* setInterval(pollServer, STATE_POLL_INTERVAL): pollServer up to its fetch
NetPoll ==
    /\ ~probe.polling
    /\ probe' = [probe EXCEPT !.polling = TRUE]
    /\ lastOp' = [op |-> "pollServer"]
    /\ UNCHANGED << now, state, ticks, ops >>

\* the fetch of pollServer fails, and pollServer runs to its end
NetPollFails(outcome) ==
    /\ probe.polling
    /\ probe' = [probe EXCEPT !.polling = FALSE]
    /\ state' = [state EXCEPT !.serverAvailable =
                                  IF outcome = "unreachable" THEN FALSE ELSE @,
                              !.lastPollTime = now]
    /\ lastOp' = [op |-> "pollServer done", outcome |-> outcome]
    /\ UNCHANGED << now, ticks, ops >>

NextNet ==
    \/ NetFrame(1)
    \/ \E a \in NetAltitudes : NetCall("adminSetAltitude", a)
    \/ \E v \in NetSpeeds : NetCall("adminSetSpeed", v)
    \/ \E d \in NetDirections : NetCall("adminSetDirection", d)
    \/ NetCall("adminRestart", 0)
    \/ \E q \in probe.inflight, outcome \in FetchOutcomes : NetFetchFails(q, outcome)
    \/ NetPoll
    \/ \E outcome \in FetchOutcomes : NetPollFails(outcome)

SpecNet == InitNet /\ [][NextNet]_vars

\* ------------------------------------------------------------------------
\* Specification SpecLink: the page loaded with the URL parameter alt, then the
\* render loop and the mode selector of main.js
\* ------------------------------------------------------------------------
\* ?alt=1000, ?alt=35786, ?alt=99990
LinkAltitudes == { Km(1000), Km(35786), Km(99990) }

\* main.js at load: if (params.has("alt")) adminSetAltitude(parseFloat(params.get("alt")))
InitLink ==
    /\ now \in AppStartTimes
    /\ ticks = 0
    /\ ops = 0
    /\ lastOp = [op |-> "load", valid |-> TRUE, mode |-> "null", result |-> "undefined"]
    /\ \E alt \in LinkAltitudes :
           /\ state = adminSetAltitude(InitialState(now), now, alt)
           /\ probe = [ kind |-> "app",
                        selectedMode |-> "null",
                        triggered |-> {},
                        shown |-> [m \in MILESTONES |-> 0],
                        visible |-> FALSE,
                        frozen |-> {},
                        \* the state as the deep link left it
                        loaded |-> state ]

NextLink ==
    \/ \E d \in TickSteps : AppFrame(d)
    \/ \E m \in Modes, i \in 1..Len(CINEMA_MODES) : SelectMode(m, i)

SpecLink == InitLink /\ [][NextLink]_vars

\* ------------------------------------------------------------------------
\* Specification SpecWait: the sandbox cabin two minutes short of an end of
\* the cable, then frames only
\* ------------------------------------------------------------------------
\* the number of frames explored
MaxWaitFrames == 7

\* frames come a quarter or a half of a wait apart
WaitSteps == { WAIT_DURATION_MS \div 4, WAIT_DURATION_MS \div 2 }

\* sandbox mode selected, the cabin put 10 km below the top going up or 10 km
\* above sea level going down, time scale 1 or 2
WaitStarts(t) ==
    LET sandbox == setMode(InitialState(t), "sandbox")
        up == adminSetAltitude(sandbox, t, Km(99990))
        down == adminSetDirection(adminSetAltitude(sandbox, t, Km(10)), t, -1)
    IN  { up, down, adminSetTimeScale(up, t, 2), adminSetTimeScale(down, t, 2) }

InitWait ==
    /\ now \in StartTimes
    /\ state \in WaitStarts(now)
    /\ ticks = 0
    /\ ops = 0
    /\ lastOp = [op |-> "load", valid |-> TRUE, mode |-> "null", result |-> "undefined"]
    /\ probe = [kind |-> "wait", waited |-> 0]

\* one animation frame d ticks later; probe.waited is the sum of
\* (frame delta * timeScale) over the frames of the wait in progress
WaitFrame(d) ==
    /\ ticks < MaxWaitFrames
    /\ ticks' = ticks + 1
    /\ now' = now + d
    /\ state' = updateLocalState(state, now')
    /\ lastOp' = Op("updateLocalState", TRUE)
    /\ probe' = [probe EXCEPT !.waited = IF state._sandboxWaiting
                                         THEN @ + d * state.timeScale ELSE 0]
    /\ UNCHANGED ops

NextWait == \E d \in WaitSteps : WaitFrame(d)

SpecWait == InitWait /\ [][NextWait]_vars

\* ------------------------------------------------------------------------
\* Specification SpecNotify: showMilestone of main.js and the timers it sets.
\* Time is counted in seconds.  A timer is pending from setTimeout until it is
\* cleared or its callback has run; its callback runs at its due time or later.
\* ------------------------------------------------------------------------
\* the clock stops after this many seconds
MaxClock == 10

\* the number of showMilestone calls explored
MaxShows == 3

\* a milestone of MILESTONES (displayMs 4000), and the arrival and departure
\* notifications of animate (displayMs 6000)
Notifications ==
    { [label |-> "Karman Line: Edge of Space", displayMs |-> 4],
      [label |-> "Departing in 10:00", displayMs |-> 6],
      [label |-> "Ground in 5h 33m", displayMs |-> 6] }

\* faulty variant: the pending timer is left to run
showMilestoneNoClear(n, t, m) ==
    [n EXCEPT !.label = m.label,
              !.opacity = 1,
              !.timers = @ \cup { [id |-> n.nextTimer, due |-> t + m.displayMs] },
              !.milestoneTimeout = n.nextTimer,
              !.nextTimer = @ + 1]

\* showMilestone(m) at time t; milestoneTimeout is 0 for null, and the ids that
\* setTimeout returns are positive
showMilestone(n, t, m) ==
    LET kept == IF n.milestoneTimeout # 0
                THEN { x \in n.timers : x.id # n.milestoneTimeout }
                ELSE n.timers
    IN  [n EXCEPT !.label = m.label,
                  !.opacity = 1,
                  !.timers = kept \cup { [id |-> n.nextTimer, due |-> t + m.displayMs] },
                  !.milestoneTimeout = n.nextTimer,
                  !.nextTimer = @ + 1]

InitNotify ==
    /\ now = CYCLE_EPOCH_MS
    /\ state = InitialState(now)
    /\ ticks = 0
    /\ ops = 0
    /\ lastOp = [op |-> "load"]
    /\ probe = [ kind |-> "notify",
                 clock |-> 0,
                 label |-> "",
                 opacity |-> 0,
                 milestoneTimeout |-> 0,
                 timers |-> {},
                 nextTimer |-> 1,
                 \* the last notification shown, when it was shown, and the due
                 \* times of the timers cleared so far
                 last |-> [label |-> "", displayMs |-> 0],
                 shownAt |-> 0,
                 cleared |-> {} ]

\* a second passes
ClockTick ==
    /\ probe.clock < MaxClock
    /\ probe' = [probe EXCEPT !.clock = @ + 1]
    /\ lastOp' = [op |-> "tick"]
    /\ UNCHANGED << now, state, ticks, ops >>

\* checkMilestones or animate calls showMilestone(m)
Show(m) ==
    /\ ops < MaxShows
    /\ ops' = ops + 1
    /\ LET n == showMilestone(probe, probe.clock, m)
       IN  probe' = [n EXCEPT !.last = m,
                              !.shownAt = probe.clock,
                              !.cleared = @ \cup { x.due : x \in probe.timers \ n.timers }]
    /\ lastOp' = [op |-> "showMilestone"]
    /\ UNCHANGED << now, state, ticks >>

\* the callback of the pending timer x runs
TimerFires(x) ==
    /\ x \in probe.timers
    /\ probe.clock >= x.due
    /\ probe' = [probe EXCEPT !.opacity = 0, !.timers = @ \ { x }]
    /\ lastOp' = [op |-> "timeout"]
    /\ UNCHANGED << now, state, ticks, ops >>

NextNotify ==
    \/ ClockTick
    \/ \E m \in Notifications : Show(m)
    \/ \E x \in probe.timers : TimerFires(x)

SpecNotify == InitNotify /\ [][NextNotify]_vars

\* ------------------------------------------------------------------------
\* Claims on the state machine (specification Spec)
\* ------------------------------------------------------------------------
AdminSetters == { "adminSetAltitude", "adminSetSpeed", "adminSetDirection", "adminSetTimeScale" }

AdminMutators == AdminSetters \cup { "adminRestart" }

\* the step is a call of an exported function
IsCall == ops' = ops + 1

\* C1: in sandbox mode, right after an update at time t, a call of adminSetSpeed,
\* adminSetDirection or adminSetTimeScale (with a valid argument) at t leaves
\* altitudeKm as that update produced it.
C1_Continuity ==
    [][ ( /\ IsCall
          /\ state.mode = "sandbox"
          /\ lastOp.op = "updateLocalState"
          /\ lastOp'.op \in { "adminSetSpeed", "adminSetDirection", "adminSetTimeScale" }
          /\ lastOp'.valid )
        => state'.altitudeKm = state.altitudeKm ]_vars

\* C2: after any sequence of calls, 0 <= altitudeKm <= CABLE_LENGTH.
C2_AltitudeInRange ==
    AltLeq(ZeroAlt, state.altitudeKm) /\ AltLeq(state.altitudeKm, CableAlt)

\* C3: an admin setter called with an invalid argument leaves every field of the
\* state as it was and returns a failure result.
C3_InvalidRejected ==
    [][ (IsCall /\ lastOp'.op \in AdminSetters /\ ~lastOp'.valid)
        => (state' = state /\ lastOp'.result = "failure") ]_vars

\* the fields of the state that C5 calls the snapshot
Snapshot(s) ==
    [ altitudeKm |-> s.altitudeKm, direction |-> s.direction, phase |-> s.phase,
      waitRemainingMs |-> s.waitRemainingMs, travelElapsedMs |-> s.travelElapsedMs,
      travelRemainingMs |-> s.travelRemainingMs, speedKmh |-> s.speedKmh,
      timeScale |-> s.timeScale ]

\* the snapshot as a function of the timestamp alone
SnapshotAt(t) ==
    LET sync == getUTCSyncState(t)
    IN  [ altitudeKm |-> sync.altitudeKm, direction |-> sync.direction,
          phase |-> sync.phase, waitRemainingMs |-> sync.waitRemainingMs,
          travelElapsedMs |-> sync.travelElapsedMs,
          travelRemainingMs |-> Exact(sync.travelRemainingMs),
          speedKmh |-> DEFAULT_SPEED_KMH, timeScale |-> 1 ]

\* C5: in realtime mode the snapshot an update at time t produces is a function
\* of t alone, whatever was called before (sandbox or cinema use, admin calls,
\* earlier updates).
C5_RealtimeDeterminism ==
    (lastOp.op = "updateLocalState" /\ state.mode = "realtime")
        => Snapshot(state) = SnapshotAt(now)

\* C5 witness: an update in realtime mode after an admin call had moved the
\* segment anchor and changed the time scale in sandbox mode.
C5_Witness ==
    /\ lastOp.op = "updateLocalState"
    /\ state.mode = "realtime"
    /\ state.startTimeMs > CYCLE_EPOCH_MS - 1
    /\ ops >= 2
    /\ state.phase = "wait-ground"

\* the playback of the preset of s is complete at time t
CinemaComplete(s, t) ==
    /\ updateBranch(s) = "cinema"
    /\ t - s._cinemaStartMs >= SumDurations(s._cinemaPreset, 1)

\* C9: once the elapsed time has reached the sum of the segment durations,
\* computeCinemaState reports done with the last segment's `to` and direction 0,
\* and every update in cinema mode from then on leaves altitudeKm at that
\* altitude with direction 0.
C9_CinemaTerminal ==
    (lastOp.op = "updateLocalState" /\ CinemaComplete(state, now))
        => LET preset == state._cinemaPreset
               final == Alt(preset[Len(preset)].to, 0)
               cinema == computeCinemaState(preset, now - state._cinemaStartMs)
           IN  /\ cinema.done
               /\ cinema.altitudeKm = final
               /\ cinema.direction = 0
               /\ state.altitudeKm = final
               /\ state.direction = 0

\* C9 witness: a second update after the one that found the playback complete.
C9_Witness ==
    /\ lastOp.op = "updateLocalState"
    /\ CinemaComplete(state, now)
    /\ CinemaComplete(state, now - 1)
    /\ ticks = 2
    /\ state.altitudeKm = CableAlt

\* C10: an admin mutation called in realtime or cinema mode returns with mode
\* sandbox and the cinema preset cleared, and the next update runs the sandbox
\* branch.
C10_AdminForcesSandbox ==
    (lastOp.op \in AdminMutators /\ lastOp.mode \in { "realtime", "cinema" })
        => /\ state.mode = "sandbox"
           /\ state._cinemaPreset = NoPreset
           /\ updateBranch(state) = "sandbox"

\* C10 witness: adminSetTimeScale called while a cinema preset was playing.
C10_Witness ==
    /\ lastOp.op = "adminSetTimeScale"
    /\ lastOp.mode = "cinema"
    /\ state._cinemaStartMs # 0
    /\ state._cinemaPreset = NoPreset
    /\ state.mode = "sandbox"

\* ------------------------------------------------------------------------
\* Claims on getUTCSyncState (specification SpecUTC)
\* ------------------------------------------------------------------------
\* C4: getUTCSyncState(t) and getUTCSyncState(t + CYCLE_DURATION_MS) return the
\* same phase, altitudeKm and direction, before and after CYCLE_EPOCH_MS.
C4_Periodic ==
    LET later == getUTCSyncState(now + CYCLE_DURATION_MS)
    IN  /\ probe.sync.phase = later.phase
        /\ probe.sync.altitudeKm = later.altitudeKm
        /\ probe.sync.direction = later.direction

\* C4 witness: a timestamp before the epoch, in the ascent, whose period ends
\* after the epoch.
C4_Witness ==
    /\ now < CYCLE_EPOCH_MS
    /\ now + CYCLE_DURATION_MS > CYCLE_EPOCH_MS
    /\ probe.sync.phase = "ascend"
    /\ AltLt(GroundAlt, probe.sync.altitudeKm)

NextPhase(phase) ==
    CASE phase = "wait-ground" -> "ascend"
      [] phase = "ascend" -> "wait-top"
      [] phase = "wait-top" -> "descend"
      [] phase = "descend" -> "wait-ground"

PhaseDuration(phase) ==
    IF phase \in { "wait-ground", "wait-top" } THEN WAIT_DURATION_MS ELSE TRAVEL_DURATION_MS

PhaseDirection(phase) ==
    CASE phase = "ascend" -> 1
      [] phase = "descend" -> -1
      [] OTHER -> 0

\* C6: as the timestamp increases the phase changes only along wait-ground ->
\* ascend -> wait-top -> descend -> wait-ground, a wait lasts WAIT_DURATION_MS
\* and a travel TRAVEL_DURATION_MS; direction is 0, +1, 0, -1 in the four
\* phases; the altitude is the ground station's in wait-ground, CABLE_LENGTH in
\* wait-top, non-decreasing in ascend, non-increasing in descend, and over d
\* ticks it never changes by more than the travel speed allows (no jump).
C6_PhaseOrder ==
    [][ LET d == now' - now
            a == probe.sync
            b == probe'.sync
        IN  /\ b.phase \in { a.phase, NextPhase(a.phase) }
            /\ (b.phase # a.phase /\ d = 1)
                   => \A t \in probe.entered : now' - t = PhaseDuration(a.phase)
            /\ (b.phase = a.phase)
                   => \A t \in probe.entered : now' - t < PhaseDuration(a.phase)
            /\ a.direction = PhaseDirection(a.phase)
            /\ b.direction = PhaseDirection(b.phase)
            /\ b.phase = "wait-ground" => b.altitudeKm = GroundAlt
            /\ b.phase = "wait-top" => b.altitudeKm = CableAlt
            /\ (a.phase = "ascend" /\ b.phase = "ascend")
                   => AltLt(a.altitudeKm, b.altitudeKm)
            /\ (a.phase = "descend" /\ b.phase = "descend")
                   => AltLt(b.altitudeKm, a.altitudeKm)
            /\ AltLeq(AltDistance(a.altitudeKm, b.altitudeKm), ProgressTimesRange(d))
      ]_vars

\* C6 witness: the end of a descent seen from its beginning, one tick before the
\* next wait at the ground station.
C6_Witness ==
    /\ probe.sync.phase = "descend"
    /\ probe.entered = { now - (TRAVEL_DURATION_MS - 1) }
    /\ now > CYCLE_EPOCH_MS

\* ------------------------------------------------------------------------
\* Claims on computeCinemaState (specification SpecCinema)
\* ------------------------------------------------------------------------
\* index of the first segment whose window [accumulated, accumulated +
\* durationMs) contains elapsedMs
ActiveSegment(preset, elapsedMs) ==
    CHOOSE i \in 1..Len(preset) :
        /\ elapsedMs < SumDurations(preset, 1) - SumDurations(preset, i + 1)
        /\ \A j \in 1..(i - 1) :
               elapsedMs >= SumDurations(preset, 1) - SumDurations(preset, j + 1)

\* C8: for every preset with positive durations and every elapsedMs below the
\* total, computeCinemaState returns the altitude from + (to - from) *
\* (elapsedMs - accumulated) / durationMs of the first segment whose window
\* contains elapsedMs, and the direction sign(to - from).
C8_CinemaReference ==
    (probe.elapsedMs < SumDurations(probe.preset, 1))
        => LET i == ActiveSegment(probe.preset, probe.elapsedMs)
               seg == probe.preset[i]
               accumulated == SumDurations(probe.preset, 1) - SumDurations(probe.preset, i)
           IN  /\ ~probe.out.done
               /\ probe.out.altitudeKm =
                      AltAdd(Alt(seg.from, 0),
                             AltQuot((seg.to - seg.from) * (probe.elapsedMs - accumulated),
                                     seg.durationMs))
               /\ probe.out.direction = Sign(seg.to - seg.from)

\* ------------------------------------------------------------------------
\* Claims on the sandbox round trip (specification SpecTrip)
\* ------------------------------------------------------------------------
AtTop ==
    /\ state._sandboxWaiting
    /\ state.phase = "wait-top"
    /\ state.altitudeKm = CableAlt
    /\ state.direction = 0

Descending == state.direction = -1 /\ state.phase = "descend" /\ ~state._sandboxWaiting

AtGroundStation ==
    /\ state._sandboxWaiting
    /\ state.phase = "wait-ground"
    /\ state.altitudeKm = GroundAlt
    /\ state.direction = 0

\* C7 as stated: the descent of the round trip ends at the altitude the trip
\* started from.
C7_ReturnsToOrigin == Returned => state.altitudeKm = probe.origin

\* C7 amended: from altitude 0 with direction +1 and no admin call, the frames
\* bring the cabin to CABLE_LENGTH, where it waits with direction 0; after the
\* wait the direction is -1; and the descent ends in a wait at the ground
\* station, at GROUND_STATION_ALTITUDE and not below it.
C7_RoundTrip ==
    /\ <>AtTop
    /\ (AtTop ~> Descending)
    /\ (Descending ~> AtGroundStation)
    /\ [](Returned => AtGroundStation)

\* C7 witness: a trip that started at altitude 0 has ended at the ground station.
C7_Witness == AtGroundStation /\ probe.origin = ZeroAlt /\ now > probe.started

\* ------------------------------------------------------------------------
\* Claims on main.js and the settings panel (specification SpecApp)
\* ------------------------------------------------------------------------
\* C11: when the panel opens in real-time mode, the mode becomes sandbox and
\* altitudeKm is the real-time altitude of that moment, and altitudeKm keeps
\* that value at every later update until another admin operation.
C11_PanelFreezes ==
    \A a \in probe.frozen : state.mode = "sandbox" /\ state.altitudeKm = a

\* C12: when real-time mode is entered from the mode selector or by "Return
\* to Real-time", the handler leaves the state equal to getUTCSyncState(now) and
\* every milestone at or below that altitude triggered; and a triggered
\* milestone is never announced afterwards.
C12_ResumeSynced ==
    /\ [](lastOp.op \in { "selectRealtime", "onReturnToRealtime" }
            => /\ state.mode = "realtime"
               /\ Snapshot(state) = SnapshotAt(now)
               /\ \A m \in MILESTONES :
                      AltLeq(Alt(m, 0), state.altitudeKm) => m \in probe.triggered)
    /\ [][ \A m \in probe.triggered : probe'.shown[m] = probe.shown[m] ]_vars

\* C12 witness: a return to real-time at the top of the cable, where the Karman
\* line milestone is marked without having been announced.
C12_Witness ==
    /\ lastOp.op = "onReturnToRealtime"
    /\ state.altitudeKm = CableAlt
    /\ 100 * UnitsPerKm \in probe.triggered
    /\ probe.shown[100 * UnitsPerKm] = 0

\* C14: each milestone is announced at most once, and triggeredMilestones never
\* loses an element, whatever frames, mode selections, teleports, reversals and
\* returns to real-time happen.
C14_OneShot ==
    /\ [](\A m \in MILESTONES : probe.shown[m] <= 1)
    /\ [][ probe.triggered \subseteq probe'.triggered ]_vars

\* C14 witness: a frame inside the window of the 10 km milestone, after that
\* milestone was announced and the direction then reversed.
C14_Witness ==
    /\ lastOp.op = "animate"
    /\ state.direction = -1
    /\ probe.shown[10 * UnitsPerKm] = 1
    /\ AltLt(AltDistance(state.altitudeKm, Km(10)), milestoneThreshold(10 * UnitsPerKm))

\* C15: a frame of the render loop in which state.mode is cinema announces no
\* milestone and adds nothing to triggeredMilestones.
C15_CinemaSuppressed ==
    [][ (lastOp'.op = "animate" /\ state'.mode = "cinema")
        => (probe'.shown = probe.shown /\ probe'.triggered = probe.triggered) ]_vars

\* C15 witness: a cinema frame at the top of the cable, inside the window of the
\* Counterweight Station milestone, which stays untriggered.
C15_Witness ==
    /\ lastOp.op = "animate"
    /\ state.mode = "cinema"
    /\ state.altitudeKm = CableAlt
    /\ CABLE_LENGTH \notin probe.triggered

\* ------------------------------------------------------------------------
\* Claims on checkMilestones (specification SpecMilestones)
\* ------------------------------------------------------------------------
\* C13: with thresholds 10 and 100 km and the samples 5, 9, 11, 50, 99, 101 km,
\* exactly two notifications fire, the 10 km one at the 3rd sample and the
\* 100 km one at the 6th; in general a threshold has fired as soon as two
\* successive samples lie on either side of it.
C13_CrossingFires ==
    /\ probe.samples = << Km(5), Km(9), Km(11), Km(50), Km(99), Km(101) >>
           => probe.fired = { [m |-> 10 * UnitsPerKm, at |-> 3],
                              [m |-> 100 * UnitsPerKm, at |-> 6] }
    /\ \A i \in 1..(Len(probe.samples) - 1) : \A m \in TestThresholds :
           (AltLt(probe.samples[i], Alt(m, 0)) /\ AltLeq(Alt(m, 0), probe.samples[i + 1]))
               => \E f \in probe.fired : f.m = m /\ f.at <= i + 1

\* ------------------------------------------------------------------------
\* Claims on the first-person controller (specification SpecController)
\* ------------------------------------------------------------------------
feetOf(c) == IF c.bodyInverted THEN c.y + EYE_HEIGHT ELSE c.y - EYE_HEIGHT

headOf(c) == IF c.bodyInverted THEN c.y - HEAD_CLEARANCE ELSE c.y + HEAD_CLEARANCE

InsideCabin(h) == floorY <= h /\ h <= ceilY

\* C16: after every update, whatever deltaTime, gravity, keys and body
\* orientation, the feet and the head lie between bounds.floorY and
\* bounds.ceilY; and under normal gravity with the body upright, feet on the
\* floor plane come with onFloor = true.
C16_InsideCabin ==
    /\ InsideCabin(feetOf(probe))
    /\ InsideCabin(headOf(probe))
    /\ (probe.currentGEff = 9800 /\ ~probe.bodyInverted /\ feetOf(probe) = floorY)
           => probe.onFloor

\* an update has carried the body from the floor to the ceiling, turned it over
\* and stopped its feet on the ceiling plane
C16_Witness ==
    /\ lastOp.op = "update"
    /\ probe.bodyInverted
    /\ feetOf(probe) = ceilY
    /\ probe.onCeiling

IsUpdate(gravities) ==
    /\ lastOp'.op = "update"
    /\ lastOp'.args[2] \in gravities
    /\ probe.isLocked

\* C17: in an update under clearly negative gravity flipAngle does not decrease,
\* increases while it is below PI and time passes, and never exceeds PI; and in
\* every update the collision tests take the body as inverted exactly when
\* flipAngle is greater than PI/2 after that update's flip step, so the body
\* turns from upright to inverted only in such an update, whatever the sign of
\* gravity.
C17_FlipMonotone ==
    /\ [](0 <= probe.flipAngle /\ probe.flipAngle <= PI)
    /\ [][ IsUpdate({ g \in GravityValues : g < 0 }) =>
             /\ probe.flipAngle <= probe'.flipAngle
             /\ (lastOp'.args[1] > 0 /\ probe.flipAngle < PI)
                    => probe.flipAngle < probe'.flipAngle ]_vars
    /\ [][ IsUpdate(GravityValues) =>
             /\ probe'.bodyInverted <=> (probe'.flipAngle > PI \div 2)
             /\ (~probe.bodyInverted /\ probe'.bodyInverted)
                    => probe'.flipAngle > PI \div 2 ]_vars

\* gravity is negative and the flip is half done: the body is still upright
C17_Witness ==
    /\ lastOp.op = "update"
    /\ lastOp.args[2] < 0
    /\ probe.isLocked
    /\ probe.flipAngle = PI \div 2
    /\ probe.targetFlipAngle = PI
    /\ ~probe.bodyInverted

\* C18: in every reachable controller state onFloor and onCeiling are not both
\* true.
C18_ContactExclusive == ~(probe.onFloor /\ probe.onCeiling)

\* the upright body has left the floor and its head has been stopped by the
\* ceiling
C18_Witness ==
    /\ lastOp.op = "update"
    /\ ~probe.bodyInverted
    /\ headOf(probe) = ceilY
    /\ probe.onCeiling
    /\ ~probe.onFloor

\* ------------------------------------------------------------------------
\* Claims on the safety net (specification SpecFloat)
\* ------------------------------------------------------------------------
Airborne(c) == ~c.onFloor /\ ~c.onCeiling

AboveMiddle(c) == c.y > (floorY + ceilY) \div 2

\* C19: a player airborne at rest in the dead zone, with no mag boots and no
\* jump, under repeated updates with positive deltaTime eventually is onFloor
\* or onCeiling; the camera never changes its side of the middle of the cabin
\* on the way, so the surface reached is the ceiling when the camera was above
\* the middle and the floor otherwise.
C19_NeverStranded ==
    /\ (Airborne(probe) /\ probe.verticalVelocity = 0) ~> ~Airborne(probe)
    /\ [][AboveMiddle(probe) <=> AboveMiddle(probe')]_vars
    /\ [](probe.onCeiling => AboveMiddle(probe))
    /\ [](probe.onFloor => ~AboveMiddle(probe))

\* an upright body that floated above the middle of the cabin has been pushed
\* up until its head touched the ceiling
C19_Witness ==
    /\ lastOp.op = "update"
    /\ ticks > 2
    /\ probe.currentGEff = 0
    /\ ~probe.magBootsHeld
    /\ ~probe.bodyInverted
    /\ probe.onCeiling
    /\ probe.y = ceilY - HEAD_CLEARANCE

\* ------------------------------------------------------------------------
\* Claim on the travel time remaining (specification Spec)
\* ------------------------------------------------------------------------
\* C20: travelRemainingMs is never the result of a division by a speedKmh of 0:
\* with speedKmh = 0 and direction +1 or -1 in sandbox mode, updateLocalState
\* leaves in travelRemainingMs a quotient whose divisor is not zero.
C20_ZeroSpeedGuarded ==
    (state.mode = "sandbox" /\ state.speedKmh = 0 /\ state.direction # 0)
        => state.travelRemainingMs.d # 0

\* ------------------------------------------------------------------------
\* Claims on phase and mode (specification Spec)
\* ------------------------------------------------------------------------
TravelPhases == { "wait-ground", "ascend", "wait-top", "descend" }

\* C21: in a state produced by updateLocalState in one of the three modes,
\* phase is null only in sandbox mode with direction 0, and in realtime and
\* cinema modes phase is one of wait-ground, ascend, wait-top, descend.
C21_PhaseNullOnlyStopped ==
    (lastOp.op = "updateLocalState" /\ state.mode \in Modes)
        => /\ state.phase = "null" => (state.mode = "sandbox" /\ state.direction = 0)
           /\ state.mode \in { "realtime", "cinema" } => state.phase \in TravelPhases

\* C22: in every state in which updateLocalState has run, state.mode is one of
\* realtime, sandbox, cinema.
C22_ModeDefined ==
    lastOp.op = "updateLocalState" => state.mode \in Modes

\* ------------------------------------------------------------------------
\* Claim on getEffectiveGravity (specification SpecGravity)
\* ------------------------------------------------------------------------
\* C23: getEffectiveGravity is positive at every altitude below GEO_ALTITUDE
\* and negative at every altitude above it, so that its zero crossing is at
\* GEO_ALTITUDE to within 1e-6 of it; and of two altitudes at which it is not
\* negative, the higher has the strictly smaller value.
C23_ZeroAtGeo ==
    /\ probe.altitudeKm < GEO_ALTITUDE => probe.sign = 1
    /\ probe.altitudeKm > GEO_ALTITUDE => probe.sign = -1
    /\ (probe.previous < probe.altitudeKm /\ probe.sign >= 0) => probe.fell

\* ------------------------------------------------------------------------
\* Claim on the networked variant (specification SpecNet)
\* ------------------------------------------------------------------------
IsFallback(names) == lastOp'.op = "fallback" /\ lastOp'.of.op \in names

\* C24: when the fetch of an admin call fails, the call applies its change to
\* the local state (the new altitude, speed or direction, or the restart
\* values, with the segment starting now), whatever frames, polls and other
\* calls ran while the request was in flight; and after adminSetSpeed or
\* adminSetDirection is applied, altitudeKm is the altitude shown just before.
C24_OfflineFallback ==
    /\ [][ IsFallback({ "adminSetAltitude" }) =>
               state'.startAltitudeKm = lastOp'.of.arg ]_vars
    /\ [][ IsFallback({ "adminSetSpeed" }) => state'.speedKmh = lastOp'.of.arg ]_vars
    /\ [][ IsFallback({ "adminSetDirection" }) => state'.direction = lastOp'.of.arg ]_vars
    /\ [][ IsFallback({ "adminRestart" }) =>
               (state'.altitudeKm = ZeroAlt /\ state'.direction = 1) ]_vars
    /\ [][ IsFallback({ "adminSetAltitude", "adminSetSpeed", "adminSetDirection", "adminRestart" })
               => state'.startTimeMs = now ]_vars
    /\ [][ IsFallback({ "adminSetSpeed", "adminSetDirection" }) =>
               state'.altitudeKm = state.altitudeKm ]_vars

\* ------------------------------------------------------------------------
\* Claim on the deep link alt (specification SpecLink)
\* ------------------------------------------------------------------------
\* C25: when the page was loaded with alt=A and a mode is then picked on the
\* loading screen, the first frame after the selection shows the cabin at A
\* plus the motion accrued since the load (at the default speed, upwards).
C25_StartsAtLink ==
    [][ (lastOp.op \in { "selectMode", "selectRealtime" } /\ lastOp'.op = "animate")
        => state'.altitudeKm = computeAltitude(probe.loaded, now') ]_vars

\* ------------------------------------------------------------------------
\* Claim on the wait at the ends of the cable (specification SpecWait)
\* ------------------------------------------------------------------------
\* the end of the cable the cabin of state s reaches at time t, if any
Reaches(s, t) ==
    IF s._sandboxWaiting THEN {}
    ELSE IF s.direction = 1 /\ AltGeq(computeAltitude(s, t), CableAlt) THEN { CableAlt }
    ELSE IF s.direction = -1 /\ AltLeq(computeAltitude(s, t), GroundAlt) THEN { GroundAlt }
    ELSE {}

\* the end of the cable at which the cabin of state s waits
WaitsAt(s) == IF s.phase = "wait-ground" THEN GroundAlt ELSE CableAlt

\* C26: the update in which the cabin reaches CABLE_LENGTH going up, or the
\* ground station going down, leaves _sandboxWaiting true, direction 0 and the
\* altitude at that end; an update during the wait leaves the altitude as it
\* was and _waitAccumMs equal to the sum of (frame delta * timeScale) since the
\* arrival, as long as that sum is below WAIT_DURATION_MS; and the first update
\* in which the sum reaches WAIT_DURATION_MS ends the wait, with the direction
\* leading away from that end, startAltitudeKm at that end and startTimeMs = now.
C26_EndpointWait ==
    /\ [][ \A end \in Reaches(state, now') :
               /\ state'._sandboxWaiting
               /\ state'.direction = 0
               /\ state'.altitudeKm = end ]_vars
    /\ [][ (state._sandboxWaiting /\ probe'.waited < WAIT_DURATION_MS) =>
               /\ state'._sandboxWaiting
               /\ state'.direction = 0
               /\ state'.altitudeKm = state.altitudeKm
               /\ state'._waitAccumMs = probe'.waited ]_vars
    /\ [][ (state._sandboxWaiting /\ probe'.waited >= WAIT_DURATION_MS) =>
               /\ ~state'._sandboxWaiting
               /\ state'.direction = (IF WaitsAt(state) = GroundAlt THEN 1 ELSE -1)
               /\ state'.startAltitudeKm = WaitsAt(state)
               /\ state'.altitudeKm = WaitsAt(state)
               /\ state'.startTimeMs = now' ]_vars

\* a wait at the ground station has just ended after three frames, the last of
\* which took the sum past WAIT_DURATION_MS
C26_Witness ==
    /\ probe.kind = "wait"
    /\ probe.waited > WAIT_DURATION_MS
    /\ ~state._sandboxWaiting
    /\ state.direction = 1
    /\ state.startAltitudeKm = GroundAlt
    /\ state.startTimeMs = now
    /\ state.timeScale = 1

\* ------------------------------------------------------------------------
\* Claim on the jump (specification SpecController)
\* ------------------------------------------------------------------------
\* the velocity that the update of this step gave the body before gravity
\* acted on it, when the body is airborne afterwards and neither the mag boots
\* nor the safety net pushed it
LaunchVelocity == probe'.verticalVelocity + lastOp'.args[2] * lastOp'.args[1]

Launched ==
    /\ IsUpdate(GravityValues)
    /\ probe.jumping
    /\ ~probe.magBootsHeld
    /\ Airborne(probe')
    /\ probe'.floatingTime <= SAFETY_NET_DELAY

\* C27: a jump is pending only while the body is on the floor or the ceiling,
\* through any interleaving of key events, pointer-lock changes and updates, so
\* an update applies a jump impulse only if onFloor or onCeiling held at its
\* start; the impulse is upwards from the floor and downwards from the ceiling
\* and at most 3 m/s; and a Space key press leaves verticalVelocity as it was,
\* and the whole controller as it was when the body is airborne.
C27_JumpFromSurface ==
    /\ [](probe.jumping => (probe.onFloor \/ probe.onCeiling))
    /\ [][ (Launched /\ probe.onFloor) =>
               (0 < LaunchVelocity /\ LaunchVelocity <= 3000 * MmPerSecond) ]_vars
    /\ [][ (Launched /\ ~probe.onFloor /\ probe.onCeiling) =>
               (0 > LaunchVelocity /\ LaunchVelocity >= -3000 * MmPerSecond) ]_vars
    /\ [][ lastOp'.op = "keydown Space" =>
               /\ probe'.verticalVelocity = probe.verticalVelocity
               /\ Airborne(probe) => probe' = probe ]_vars

\* in the dead zone, a jump has pushed the inverted body off the ceiling,
\* downwards: it is airborne less than a metre below where it stood
C27_Witness ==
    /\ lastOp.op = "update"
    /\ probe.isLocked
    /\ ~probe.jumping
    /\ Airborne(probe)
    /\ probe.verticalVelocity < 0
    /\ probe.currentGEff = 0
    /\ probe.y < ceilY - EYE_HEIGHT
    /\ probe.y > ceilY - EYE_HEIGHT - Metre

\* ------------------------------------------------------------------------
\* Claim on the notification timer (specification SpecNotify)
\* ------------------------------------------------------------------------
\* C28: at most one dismissal timer is pending at any time; showMilestone
\* leaves pending only the timer it has set, due displayMs later; and from the
\* moment a notification is shown until its displayMs has elapsed, it is
\* visible with its own text unless a later notification has replaced it, so
\* that no timer of an earlier notification hides it.
C28_OneTimer ==
    /\ [](Cardinality(probe.timers) <= 1)
    /\ [][ lastOp'.op = "showMilestone" =>
               \A x \in probe'.timers :
                   x.id = probe'.milestoneTimeout /\ x.due = probe'.clock + probe'.last.displayMs ]_vars
    /\ []( (probe.nextTimer > 1 /\ probe.clock < probe.shownAt + probe.last.displayMs)
               => (probe.opacity = 1 /\ probe.label = probe.last.label) )

\* a notification is still visible at a time when the timer of the one it
\* replaced would have run
C28_Witness ==
    /\ probe.kind = "notify"
    /\ probe.opacity = 1
    /\ \E due \in probe.cleared : due <= probe.clock
    /\ probe.clock < probe.shownAt + probe.last.displayMs

\* ------------------------------------------------------------------------
\* Claim on the wait flag across modes (specification Spec)
\* ------------------------------------------------------------------------
\* C29: in every state in which an update would run the sandbox branch with
\* _sandboxWaiting true, phase is wait-ground or wait-top and altitudeKm is
\* the matching end of the cable, whatever mode changes and admin operations
\* came before; sandbox mode is entered by an admin operation.
C29_WaitingAtEndpoint ==
    ( /\ lastOp.op \in AdminMutators \cup { "updateLocalState" }
      /\ state.mode = "sandbox"
      /\ state._sandboxWaiting )
        => \/ state.phase = "wait-ground" /\ state.altitudeKm = GroundAlt
           \/ state.phase = "wait-top" /\ state.altitudeKm = CableAlt

\* ------------------------------------------------------------------------
\* Claim on selectedMode (specification SpecApp)
\* ------------------------------------------------------------------------
\* C30: once a mode has been selected, selectedMode equals state.mode after
\* every frame of the render loop.
C30_SelectedModeFollows ==
    (lastOp.op = "animate" /\ probe.selectedMode # "null")
        => probe.selectedMode = state.mode

====
